---- MODULE Spec2Model ----
(***************************************************************************)
(* CipherNotes: encrypted-key escrow and capability sharing.               *)
(*                                                                         *)
(*   - the key chunk codec (keyChunkToBigInt / bigIntToKeyChunk),          *)
(*   - the CipherNotes contract (the capability store),                    *)
(*   - the client handlers handleSave / handleDecrypt / handleShare of the *)
(*     two UI variants (components/CipherNotes.jsx = "A", the second       *)
(*     CipherNotes component = "B").                                       *)
(*                                                                         *)
(* A JavaScript BigInt is an arbitrary-precision natural number; it is     *)
(* represented by its base-256 digits, most significant first, without     *)
(* leading zeros (0n is the empty sequence).  The three BigInt operations  *)
(* the codec uses are computed on that representation.                     *)
(***************************************************************************)
EXTENDS Integers, Sequences, FiniteSets, TLC

\* ------------------------------------------------------------------ bounds
\* most non-zero bytes in a sampled codec input
MaxNonzero == 2

\* ---------------------------------------------------------- program constants
KeyLen == 32
ChunkLen == 8
NumChunks == 4

\* ------------------------------------------------------------------ BigInt
BigZero == << >>

\* (value << 8n) | BigInt(b), for a byte b
ShlOr(value, b) ==
  IF value = BigZero THEN (IF b = 0 THEN BigZero ELSE <<b>>) ELSE Append(value, b)

\* Number(value & 0xFFn)
AndFF(value) == IF value = BigZero THEN 0 ELSE value[Len(value)]

\* value >> 8n
Shr(value) == IF Len(value) <= 1 THEN BigZero ELSE SubSeq(value, 1, Len(value) - 1)

\* keyBytes[j] || 0 on a Uint8Array (0-based index j; undefined out of range)
ByteAt(keyBytes, j) == IF j + 1 \in DOMAIN keyBytes THEN keyBytes[j + 1] ELSE 0

\* ------------------------------------------------------------------- codec
RECURSIVE ToBigLoop(_, _, _, _)
ToBigLoop(keyBytes, offset, i, value) ==
  IF i >= ChunkLen THEN value
  ELSE ToBigLoop(keyBytes, offset, i + 1, ShlOr(value, ByteAt(keyBytes, offset + i)))

\* keyChunkToBigInt reading from the start of the key whatever the offset
keyChunkToBigIntAtZero(keyBytes, offset) == ToBigLoop(keyBytes, 0, 0, BigZero)

keyChunkToBigInt(keyBytes, offset) == ToBigLoop(keyBytes, offset, 0, BigZero)

RECURSIVE ToChunkLoop(_, _, _)
ToChunkLoop(bytes, i, value) ==
  IF i < 0 THEN bytes
  ELSE ToChunkLoop([bytes EXCEPT ![i + 1] = AndFF(value)], i - 1, Shr(value))

\* bigIntToKeyChunk writing the low-order byte first
bigIntToKeyChunkLowFirst(value) ==
  LET bytes == ToChunkLoop([j \in 1..ChunkLen |-> 0], ChunkLen - 1, value)
  IN  [j \in 1..ChunkLen |-> bytes[ChunkLen + 1 - j]]

bigIntToKeyChunk(value) ==
  ToChunkLoop([j \in 1..ChunkLen |-> 0], ChunkLen - 1, value)

\* keyBytes.set(chunk, offset) on a Uint8Array
SetAt(keyBytes, chunk, offset) ==
  [j \in DOMAIN keyBytes |->
     IF j - 1 >= offset /\ j - 1 < offset + Len(chunk) THEN chunk[j - offset] ELSE keyBytes[j]]

\* the four chunk values of a key (handleSave / handleShare)
SplitKey(keyBytes) ==
  << keyChunkToBigInt(keyBytes, 0), keyChunkToBigInt(keyBytes, 8),
     keyChunkToBigInt(keyBytes, 16), keyChunkToBigInt(keyBytes, 24) >>

\* the key rebuilt from four chunk values (handleDecrypt)
JoinChunks(c) ==
  LET k0 == [j \in 1..KeyLen |-> 0]
      k1 == SetAt(k0, bigIntToKeyChunk(c[1]), 0)
      k2 == SetAt(k1, bigIntToKeyChunk(c[2]), 8)
      k3 == SetAt(k2, bigIntToKeyChunk(c[3]), 16)
  IN  SetAt(k3, bigIntToKeyChunk(c[4]), 24)

\* =================================================================== state
\* ------------------------------------------------------------------ bounds
\* notes in the store, all owners together
MaxNotes == 2
\* encrypted inputs (relayer createEncryptedInput(...).encrypt() calls) in a run
MaxInputs == 3
\* blobs the blob store may hold
MaxBlobs == 2
\* transactions mined in a run (each in its own block: the last block timestamp)
MaxTime == 3

\* address(0)
ZeroAddr == 0
\* the accounts
Addr == {1, 2}
\* bytes32(0): the value of an unset handle
NoHandle == 0
\* the note ids a call may name (one past the last possible index included)
NoteIds == 0..MaxNotes
Titles == {"t", "u"}
\* JavaScript null / undefined: as a decrypted chunk, as a selected note id, and as a
\* selected shared note
Null == <<-1>>
NullId == -1
NullRef == [owner |-> ZeroAddr, noteId |-> 0, title |-> ""]
NoHandles == <<NoHandle, NoHandle, NoHandle, NoHandle>>
\* the client sessions (browser tabs)
Sess == {1, 2}

VARIABLES
  \* CipherNotes.sol storage
  userNotes,        \* address => Note[]
  noteCount,        \* address => uint256
  sharedNoteKeys,   \* owner => noteId => recipient => bytes32[4]
  sharedWithList,   \* owner => noteId => address[]
  receivedNotes,    \* recipient => SharedNoteRef[]
  noteCategories,   \* owner => noteId => euint8
  now,              \* block.timestamp
  lastTx,           \* the receipt of the last transaction
  \* FHEVM coprocessor: handle -> (cleartext, user the input was encrypted by, width)
  fhe,
  fheAcl,           \* ACL: <<handle, address>> pairs granted by FHE.allow
  \* blob store: locator -> blob
  ipfs,
  \* codec harness
  codec,
  \* the client: React state of the CipherNotes component, one session per account
  variant,            \* which UI variant the sessions run: "A" or "B"
  account,            \* the connected account of each session
  pending,            \* the transaction a session has sent and is waiting for
  notes,              \* loaded list of own active notes
  sharedNotes,        \* loaded "shared with me" list
  selectedNoteId,     \* null or a note id
  selectedSharedNote, \* null or {owner, noteId, title}
  title,
  content,
  isNewNote,
  isDecrypted,
  contentCache,       \* cache key -> plaintext
  keyCache,           \* cache key -> key bytes
  log,                \* what the last handler reported (addLog / alert)
  calls               \* the external calls the last handler made

chainVars == <<userNotes, noteCount, sharedNoteKeys, sharedWithList, receivedNotes,
               noteCategories>>
clientVars == <<variant, account, pending, notes, sharedNotes, selectedNoteId, selectedSharedNote, title,
                content, isNewNote, isDecrypted, contentCache, keyCache, log, calls>>
vars == <<userNotes, noteCount, sharedNoteKeys, sharedWithList, receivedNotes,
          noteCategories, now, lastTx, fhe, fheAcl, ipfs, codec, clientVars>>

\* ------------------------------------------------------ FHEVM library calls
\* FHE.fromExternal(handle, inputProof) for each handle of hs: the proof is valid when
\* the handles belong to one input that msg.sender encrypted for this contract, with
\* the declared width
ProofOk(sender, hs, bits) ==
  /\ \A j \in DOMAIN hs :
       /\ hs[j] \in DOMAIN fhe
       /\ fhe[hs[j]].user = sender
       /\ fhe[hs[j]].bits = bits
       /\ fhe[hs[j]].input = fhe[hs[1]].input

\* FHE.allowThis(k); FHE.allow(k, who) for each handle of hs
Allow(hs, who) == fheAcl' = fheAcl \cup {<<hs[j], who>> : j \in DOMAIN hs}

\* ------------------------------------------------------------ CipherNotes.sol
Exists(owner, noteId) == noteId < Len(userNotes[owner])
\* userNotes[owner][noteId] (ids are 0-based array indices)
NoteAt(owner, noteId) == userNotes[owner][noteId + 1]
\* sharedNoteKeys[owner][noteId][recipient]
Shared(owner, noteId, recipient) ==
  IF <<owner, noteId, recipient>> \in DOMAIN sharedNoteKeys
  THEN sharedNoteKeys[<<owner, noteId, recipient>>] ELSE NoHandles
\* the test the contract uses for "a grant exists"
Active(owner, noteId, recipient) == Shared(owner, noteId, recipient)[1] # NoHandle

\* a transaction: lastTx is its receipt (function, sender, revert reason or "" when it
\* was mined); a mined transaction moves block.timestamp on
Tx(fn, sender, err) ==
  /\ lastTx' = [fn |-> fn, sender |-> sender, err |-> err]
  /\ now' = IF err = "" THEN now + 1 ELSE now

\* key chunks stored with the first two exchanged
ProcessKeyChunksSwapped(note, hs) == [note EXCEPT !.keyChunks = <<hs[2], hs[1], hs[3], hs[4]>>]

\* _processKeyChunk1..4: fromExternal, allowThis, allow(msg.sender), store
ProcessKeyChunks(note, hs) == [note EXCEPT !.keyChunks = hs]

createNoteRevert(sender, noteTitle, cid, hs) ==
  IF ~ProofOk(sender, hs, 64) THEN "Invalid proof" ELSE ""

\* createNote taking the number of active notes for the new id
createNoteCountingActive(sender, noteTitle, cid, hs) ==
  LET note == [id |-> noteCount[sender], createdAt |-> now, updatedAt |-> now,
               title |-> noteTitle, ipfsCid |-> cid, keyChunks |-> NoHandles,
               isDeleted |-> FALSE]
  IN  /\ userNotes' = [userNotes EXCEPT ![sender] = Append(@, ProcessKeyChunks(note, hs))]
      /\ noteCount' = [noteCount EXCEPT ![sender] = @ + 1]
      /\ Allow(hs, sender)
      /\ UNCHANGED <<sharedNoteKeys, sharedWithList, receivedNotes, noteCategories>>

createNote(sender, noteTitle, cid, hs) ==
  LET noteId == Len(userNotes[sender])
      note == [id |-> noteId, createdAt |-> now, updatedAt |-> now, title |-> noteTitle,
               ipfsCid |-> cid, keyChunks |-> NoHandles, isDeleted |-> FALSE]
  IN  /\ userNotes' = [userNotes EXCEPT ![sender] = Append(@, ProcessKeyChunks(note, hs))]
      /\ noteCount' = [noteCount EXCEPT ![sender] = @ + 1]
      /\ Allow(hs, sender)
      /\ UNCHANGED <<sharedNoteKeys, sharedWithList, receivedNotes, noteCategories>>

\* updateTitle without the 'Deleted' requirement
updateTitleRevertOfDeleted(sender, noteId) ==
  IF ~Exists(sender, noteId) THEN "Not found" ELSE ""

updateTitleRevert(sender, noteId) ==
  IF ~Exists(sender, noteId) THEN "Not found"
  ELSE IF NoteAt(sender, noteId).isDeleted THEN "Deleted" ELSE ""

\* updateTitle writing the title of every owner's note with that id
updateTitleOfAll(sender, noteId, newTitle) ==
  /\ userNotes' = [o \in Addr |->
                     IF Exists(o, noteId)
                     THEN [userNotes[o] EXCEPT ![noteId + 1] =
                             [@ EXCEPT !.title = newTitle, !.updatedAt = now]]
                     ELSE userNotes[o]]
  /\ UNCHANGED <<noteCount, sharedNoteKeys, sharedWithList, receivedNotes,
                 noteCategories, fheAcl>>

\* updateTitle that also clears the note's locator
updateTitleDropsLocator(sender, noteId, newTitle) ==
  /\ userNotes' = [userNotes EXCEPT ![sender][noteId + 1] =
                     [@ EXCEPT !.title = newTitle, !.updatedAt = now, !.ipfsCid = << >>]]
  /\ UNCHANGED <<noteCount, sharedNoteKeys, sharedWithList, receivedNotes,
                 noteCategories, fheAcl>>

updateTitle(sender, noteId, newTitle) ==
  /\ userNotes' = [userNotes EXCEPT ![sender][noteId + 1] =
                     [@ EXCEPT !.title = newTitle, !.updatedAt = now]]
  /\ UNCHANGED <<noteCount, sharedNoteKeys, sharedWithList, receivedNotes,
                 noteCategories, fheAcl>>

updateContentRevert(sender, noteId, hs) ==
  IF ~Exists(sender, noteId) THEN "Not found"
  ELSE IF NoteAt(sender, noteId).isDeleted THEN "Deleted"
  ELSE IF ~ProofOk(sender, hs, 64) THEN "Invalid proof"
  ELSE ""

updateContent(sender, noteId, cid, hs) ==
  /\ userNotes' = [userNotes EXCEPT ![sender][noteId + 1] =
                     ProcessKeyChunks([@ EXCEPT !.ipfsCid = cid, !.updatedAt = now], hs)]
  /\ Allow(hs, sender)
  /\ UNCHANGED <<noteCount, sharedNoteKeys, sharedWithList, receivedNotes, noteCategories>>

deleteNoteRevert(sender, noteId) ==
  IF ~Exists(sender, noteId) THEN "Not found"
  ELSE IF NoteAt(sender, noteId).isDeleted THEN "Already deleted"
  ELSE IF noteCount[sender] = 0 THEN "Panic(0x11)"
  ELSE ""

\* deleteNote that also clears the grants made for the note
deleteNoteRevokes(sender, noteId) ==
  /\ userNotes' = [userNotes EXCEPT ![sender][noteId + 1].isDeleted = TRUE]
  /\ noteCount' = [noteCount EXCEPT ![sender] = @ - 1]
  /\ sharedNoteKeys' = [t \in {u \in DOMAIN sharedNoteKeys : u[1] # sender \/ u[2] # noteId} |->
                          sharedNoteKeys[t]]
  /\ UNCHANGED <<sharedWithList, receivedNotes, noteCategories, fheAcl>>

deleteNote(sender, noteId) ==
  /\ userNotes' = [userNotes EXCEPT ![sender][noteId + 1].isDeleted = TRUE]
  /\ noteCount' = [noteCount EXCEPT ![sender] = @ - 1]
  /\ UNCHANGED <<sharedNoteKeys, sharedWithList, receivedNotes, noteCategories, fheAcl>>

\* restoreNote without the 'Not deleted' requirement
restoreNoteRevertUnchecked(sender, noteId) ==
  IF ~Exists(sender, noteId) THEN "Not found" ELSE ""

restoreNoteRevert(sender, noteId) ==
  IF ~Exists(sender, noteId) THEN "Not found"
  ELSE IF ~NoteAt(sender, noteId).isDeleted THEN "Not deleted" ELSE ""

restoreNote(sender, noteId) ==
  /\ userNotes' = [userNotes EXCEPT ![sender][noteId + 1].isDeleted = FALSE]
  /\ noteCount' = [noteCount EXCEPT ![sender] = @ + 1]
  /\ UNCHANGED <<sharedNoteKeys, sharedWithList, receivedNotes, noteCategories, fheAcl>>

\* shareNote without the 'Already shared' requirement
shareNoteRevertUnchecked(sender, noteId, recipient, hs) ==
  IF ~Exists(sender, noteId) THEN "Not found"
  ELSE IF NoteAt(sender, noteId).isDeleted THEN "Deleted"
  ELSE IF recipient = sender THEN "Cannot share with self"
  ELSE IF recipient = ZeroAddr THEN "Invalid recipient"
  ELSE IF ~ProofOk(sender, hs, 64) THEN "Invalid proof"
  ELSE ""

shareNoteRevert(sender, noteId, recipient, hs) ==
  IF ~Exists(sender, noteId) THEN "Not found"
  ELSE IF NoteAt(sender, noteId).isDeleted THEN "Deleted"
  ELSE IF recipient = sender THEN "Cannot share with self"
  ELSE IF recipient = ZeroAddr THEN "Invalid recipient"
  ELSE IF Shared(sender, noteId, recipient)[1] # NoHandle THEN "Already shared"
  ELSE IF ~ProofOk(sender, hs, 64) THEN "Invalid proof"
  ELSE ""

\* shareNote that appends to the two lists and leaves the handles unwritten
shareNoteListsOnly(sender, noteId, recipient, hs) ==
  /\ Allow(hs, recipient)
  /\ sharedWithList' = [sharedWithList EXCEPT ![<<sender, noteId>>] = Append(@, recipient)]
  /\ receivedNotes' = [receivedNotes EXCEPT ![recipient] =
                         Append(@, [owner |-> sender, noteId |-> noteId])]
  /\ UNCHANGED <<userNotes, noteCount, noteCategories, sharedNoteKeys>>

shareNote(sender, noteId, recipient, hs) ==
  /\ Allow(hs, recipient)
  /\ sharedNoteKeys' = [t \in DOMAIN sharedNoteKeys \cup {<<sender, noteId, recipient>>} |->
                          IF t = <<sender, noteId, recipient>> THEN hs ELSE sharedNoteKeys[t]]
  /\ sharedWithList' = [sharedWithList EXCEPT ![<<sender, noteId>>] = Append(@, recipient)]
  /\ receivedNotes' = [receivedNotes EXCEPT ![recipient] =
                         Append(@, [owner |-> sender, noteId |-> noteId])]
  /\ UNCHANGED <<userNotes, noteCount, noteCategories>>

\* unshareNote without the 'Not shared' requirement
unshareNoteRevertSilent(sender, noteId, recipient) ==
  IF ~Exists(sender, noteId) THEN "Not found" ELSE ""

unshareNoteRevert(sender, noteId, recipient) ==
  IF ~Exists(sender, noteId) THEN "Not found"
  ELSE IF Shared(sender, noteId, recipient)[1] = NoHandle THEN "Not shared" ELSE ""

\* unshareNote that leaves the stored handles in place
unshareNoteKeepsKeys(sender, noteId, recipient) == UNCHANGED <<chainVars, fheAcl>>

\* unshareNote that clears the first handle of the grant only
unshareNoteFirstOnly(sender, noteId, recipient) ==
  /\ sharedNoteKeys' = [sharedNoteKeys EXCEPT ![<<sender, noteId, recipient>>][1] = NoHandle]
  /\ UNCHANGED <<userNotes, noteCount, sharedWithList, receivedNotes, noteCategories, fheAcl>>

\* delete sharedNoteKeys[msg.sender][noteId][recipient]
unshareNote(sender, noteId, recipient) ==
  /\ sharedNoteKeys' = [t \in DOMAIN sharedNoteKeys \ {<<sender, noteId, recipient>>} |->
                          sharedNoteKeys[t]]
  /\ UNCHANGED <<userNotes, noteCount, sharedWithList, receivedNotes, noteCategories, fheAcl>>

setNoteCategoryRevert(sender, noteId, h) ==
  IF ~Exists(sender, noteId) THEN "Not found"
  ELSE IF NoteAt(sender, noteId).isDeleted THEN "Deleted"
  ELSE IF ~ProofOk(sender, <<h>>, 8) THEN "Invalid proof"
  ELSE ""

setNoteCategory(sender, noteId, h) ==
  /\ noteCategories' = [t \in DOMAIN noteCategories \cup {<<sender, noteId>>} |->
                          IF t = <<sender, noteId>> THEN h ELSE noteCategories[t]]
  /\ Allow(<<h>>, sender)
  /\ UNCHANGED <<userNotes, noteCount, sharedNoteKeys, sharedWithList, receivedNotes>>

\* ---- views
getSharedNoteKeyChunks(sender, owner, noteId) ==
  IF Shared(owner, noteId, sender)[1] # NoHandle
  THEN [err |-> "", ret |-> Shared(owner, noteId, sender)]
  ELSE [err |-> "No access", ret |-> NoHandles]

\* getSharedNoteCID that looks the note up before it tests the grant
getSharedNoteCIDLookupFirst(sender, owner, noteId) ==
  IF ~Exists(owner, noteId) THEN [err |-> "Panic(0x32)", ret |-> << >>]
  ELSE IF Shared(owner, noteId, sender)[1] = NoHandle THEN [err |-> "No access", ret |-> << >>]
  ELSE [err |-> "", ret |-> NoteAt(owner, noteId).ipfsCid]

\* userNotes[owner][noteId] is read after the access check; an index past the end
\* of the array reverts with Panic(0x32)
getSharedNoteCID(sender, owner, noteId) ==
  IF Shared(owner, noteId, sender)[1] = NoHandle THEN [err |-> "No access", ret |-> << >>]
  ELSE IF ~Exists(owner, noteId) THEN [err |-> "Panic(0x32)", ret |-> << >>]
  ELSE [err |-> "", ret |-> NoteAt(owner, noteId).ipfsCid]

getSharedNoteMetadata(sender, owner, noteId) ==
  IF Shared(owner, noteId, sender)[1] = NoHandle THEN [err |-> "No access", ret |-> << >>]
  ELSE IF ~Exists(owner, noteId) THEN [err |-> "Panic(0x32)", ret |-> << >>]
  ELSE [err |-> "", ret |-> <<NoteAt(owner, noteId).title, NoteAt(owner, noteId).createdAt,
                              NoteAt(owner, noteId).updatedAt>>]

getNoteCID(sender, noteId) ==
  IF ~Exists(sender, noteId) THEN [err |-> "Not found", ret |-> << >>]
  ELSE [err |-> "", ret |-> NoteAt(sender, noteId).ipfsCid]

getNoteKeyChunks(sender, noteId) ==
  IF ~Exists(sender, noteId) THEN [err |-> "Not found", ret |-> NoHandles]
  ELSE [err |-> "", ret |-> NoteAt(sender, noteId).keyChunks]

getMyNotesMetadata(sender) == userNotes[sender]

\* the handle is bytes32(0) where no category was set
getNoteCategory(sender, noteId) ==
  IF ~Exists(sender, noteId) THEN [err |-> "Not found", ret |-> NoHandle]
  ELSE [err |-> "", ret |-> IF <<sender, noteId>> \in DOMAIN noteCategories
                            THEN noteCategories[<<sender, noteId>>] ELSE NoHandle]

getTotalNotes(sender) == Len(userNotes[sender])

getActiveNoteCount(sender) == noteCount[sender]

\* owners, noteIds, titles: the title is left empty where the grant is not active
getReceivedNotes(sender) ==
  [i \in DOMAIN receivedNotes[sender] |->
     LET ref == receivedNotes[sender][i]
     IN  [owner |-> ref.owner, noteId |-> ref.noteId,
          title |-> IF Shared(ref.owner, ref.noteId, sender)[1] # NoHandle
                    THEN NoteAt(ref.owner, ref.noteId).title ELSE ""]]

\* a list of grantees that leaves out the addresses whose grant is not active
getSharedWithListActive(sender, noteId) ==
  IF ~Exists(sender, noteId) THEN [err |-> "Not found", ret |-> << >>]
  ELSE LET granted(g) == Shared(sender, noteId, g)[1] # NoHandle
       IN  [err |-> "", ret |-> SelectSeq(sharedWithList[<<sender, noteId>>], granted)]

getSharedWithList(sender, noteId) ==
  IF ~Exists(sender, noteId) THEN [err |-> "Not found", ret |-> << >>]
  ELSE [err |-> "", ret |-> sharedWithList[<<sender, noteId>>]]

\* --------------------------------------------------------- relayer (client side)
\* relayer.createEncryptedInput(contract, user).add64(v1)...add64(v4).encrypt():
\* four fresh handles of one input
Inputs == {fhe[h].input : h \in DOMAIN fhe}
FreshHandles(n) == [j \in 1..n |-> Len(fhe) + j]
Encrypted(user, vals, bits) ==
  fhe \o [j \in 1..Len(vals) |->
            [val |-> vals[j], user |-> user, bits |-> bits, input |-> Cardinality(Inputs) + 1]]

\* ------------------------------------------------------------------ samples
\* a key generator that returns the same key every time
SampleKeyFixed(n) == [j \in 1..KeyLen |-> (16 + j) % 256]

\* the key the n-th call of generateAESKey returns: keys differ from call to call and
\* are never all zero; every second one has a zero third chunk
SampleKey(n) ==
  [j \in 1..KeyLen |-> IF n % 2 = 0 /\ j \in 17..24 THEN 0 ELSE (16 * n + j) % 256]

\* ============================================================= initial state
NoTx == [fn |-> "none", sender |-> ZeroAddr, err |-> ""]

ChainInit ==
  /\ userNotes = [a \in Addr |-> << >>]
  /\ noteCount = [a \in Addr |-> 0]
  /\ sharedNoteKeys = << >>
  /\ sharedWithList = [t \in Addr \X (0..(MaxNotes - 1)) |-> << >>]
  /\ receivedNotes = [a \in Addr |-> << >>]
  /\ noteCategories = << >>
  /\ now = 0
  /\ lastTx = NoTx
  /\ fheAcl = {}
  /\ ipfs = << >>

CodecIdle == [pc |-> "idle"]

\* no transaction in flight; nothing reported yet. `at` is the block height at which a
\* handler was started and `unshared` whether, at that height, the store held no grant
\* for the pair a share is about; `category` is the category chosen for a new note, `h`
\* the handle it was encrypted to, and `prior` the owner's notes as the ledger held them
\* when a save was started
NoPending == [fn |-> "none", noteId |-> NullId, title |-> "", cid |-> << >>, hs |-> NoHandles,
              recipient |-> ZeroAddr, keyBytes |-> << >>, pt |-> "", at |-> 0,
              unshared |-> FALSE, category |-> 0, h |-> NoHandle, prior |-> << >>]
NoLog == [op |-> "none", out |-> "", noteId |-> NullId, recipient |-> ZeroAddr, at |-> 0,
          unshared |-> FALSE]

\* a freshly mounted component (useState initial values)
ClientInit ==
  /\ pending = [s \in Sess |-> NoPending]
  /\ notes = [s \in Sess |-> << >>]
  /\ sharedNotes = [s \in Sess |-> << >>]
  /\ selectedNoteId = [s \in Sess |-> NullId]
  /\ selectedSharedNote = [s \in Sess |-> NullRef]
  /\ title = [s \in Sess |-> ""]
  /\ content = [s \in Sess |-> ""]
  /\ isNewNote = [s \in Sess |-> FALSE]
  /\ isDecrypted = [s \in Sess |-> FALSE]
  /\ contentCache = [s \in Sess |-> << >>]
  /\ keyCache = [s \in Sess |-> << >>]
  /\ log = [s \in Sess |-> NoLog]
  /\ calls = [s \in Sess |-> {}]

\* ======================================================= transactions, called directly
\* block.timestamp is capped at MaxTime: a transaction that would be mined needs
\* now < MaxTime, one that reverts leaves now as it is and can always be sent
TotalNotes == Len(userNotes[1]) + Len(userNotes[2])

Reverted == UNCHANGED <<userNotes, noteCount, sharedNoteKeys, sharedWithList,
                        receivedNotes, noteCategories, fheAcl>>

\* the handle tuples a caller may submit with a proof: the handles of each encrypted
\* input of the given width that the caller made, those of one input somebody else
\* made, and four handles that nobody produced
FirstOf(n) == CHOOSE h \in DOMAIN fhe : fhe[h].input = n /\ (h = 1 \/ fhe[h - 1].input # n)
Batches(a, bits) ==
  LET own == {n \in Inputs : fhe[FirstOf(n)].user = a /\ fhe[FirstOf(n)].bits = bits}
      other == {n \in Inputs : fhe[FirstOf(n)].user # a /\ fhe[FirstOf(n)].bits = bits}
      pick == own \cup (IF other = {} THEN {} ELSE {CHOOSE n \in other : TRUE})
  IN  {[j \in 1..NumChunks |-> FirstOf(n) - 1 + j] : n \in pick}
        \cup {[j \in 1..NumChunks |-> Len(fhe) + j]}

TxCreateNote(a) ==
  \E noteTitle \in Titles, hs \in Batches(a, 64) :
    /\ LET err == createNoteRevert(a, noteTitle, <<1>>, hs)
       IN  /\ err = "" => now < MaxTime
           /\ err = "" => TotalNotes < MaxNotes
           /\ Tx("createNote", a, err)
           /\ IF err = "" THEN createNote(a, noteTitle, <<1>>, hs) ELSE Reverted
    /\ UNCHANGED <<fhe, ipfs, codec, clientVars>>

TxUpdateTitle(a) ==
  \E noteId \in NoteIds, noteTitle \in Titles :
    /\ LET err == updateTitleRevert(a, noteId)
       IN  /\ err = "" => now < MaxTime
           /\ Tx("updateTitle", a, err)
           /\ IF err = "" THEN updateTitle(a, noteId, noteTitle) ELSE Reverted
    /\ UNCHANGED <<fhe, ipfs, codec, clientVars>>

TxUpdateContent(a) ==
  \E noteId \in NoteIds, hs \in Batches(a, 64) :
    /\ LET err == updateContentRevert(a, noteId, hs)
       IN  /\ err = "" => now < MaxTime
           /\ Tx("updateContent", a, err)
           /\ IF err = "" THEN updateContent(a, noteId, <<2>>, hs) ELSE Reverted
    /\ UNCHANGED <<fhe, ipfs, codec, clientVars>>

TxDeleteNote(a) ==
  \E noteId \in NoteIds :
    /\ LET err == deleteNoteRevert(a, noteId)
       IN  /\ err = "" => now < MaxTime
           /\ Tx("deleteNote", a, err)
           /\ IF err = "" THEN deleteNote(a, noteId) ELSE Reverted
    /\ UNCHANGED <<fhe, ipfs, codec, clientVars>>

TxRestoreNote(a) ==
  \E noteId \in NoteIds :
    /\ LET err == restoreNoteRevert(a, noteId)
       IN  /\ err = "" => now < MaxTime
           /\ Tx("restoreNote", a, err)
           /\ IF err = "" THEN restoreNote(a, noteId) ELSE Reverted
    /\ UNCHANGED <<fhe, ipfs, codec, clientVars>>

TxShareNote(a) ==
  \E noteId \in NoteIds, recipient \in Addr \cup {ZeroAddr}, hs \in Batches(a, 64) :
    /\ LET err == shareNoteRevert(a, noteId, recipient, hs)
       IN  /\ err = "" => now < MaxTime
           /\ Tx("shareNote", a, err)
           /\ IF err = "" THEN shareNote(a, noteId, recipient, hs) ELSE Reverted
    /\ UNCHANGED <<fhe, ipfs, codec, clientVars>>

TxUnshareNote(a) ==
  \E noteId \in NoteIds, recipient \in Addr \cup {ZeroAddr} :
    /\ LET err == unshareNoteRevert(a, noteId, recipient)
       IN  /\ err = "" => now < MaxTime
           /\ Tx("unshareNote", a, err)
           /\ IF err = "" THEN unshareNote(a, noteId, recipient) ELSE Reverted
    /\ UNCHANGED <<fhe, ipfs, codec, clientVars>>

TxSetNoteCategory(a) ==
  \E noteId \in NoteIds, h \in {hs[1] : hs \in Batches(a, 8)} :
    /\ LET err == setNoteCategoryRevert(a, noteId, h)
       IN  /\ err = "" => now < MaxTime
           /\ Tx("setNoteCategory", a, err)
           /\ IF err = "" THEN setNoteCategory(a, noteId, h) ELSE Reverted
    /\ UNCHANGED <<fhe, ipfs, codec, clientVars>>

\* the encrypted inputs that exist off-chain before any transaction: two 4 x 64-bit
\* inputs of account 1, one of account 2, and one 8-bit input of each
StoreInputs ==
  LET chunks == SplitKey(SampleKey(1))
      in64(u, n) == [j \in 1..NumChunks |-> [val |-> chunks[j], user |-> u, bits |-> 64, input |-> n]]
      in8(u, n) == <<[val |-> <<3>>, user |-> u, bits |-> 8, input |-> n]>>
  IN  in64(1, 1) \o in64(1, 2) \o in64(2, 3) \o in8(1, 4) \o in8(2, 5)

InitStore ==
  /\ ChainInit
  /\ fhe = StoreInputs
  /\ codec = CodecIdle
  /\ variant = "A"
  /\ account = [s \in Sess |-> s]
  /\ ClientInit

NextStore ==
  \/ \E a \in Addr : TxCreateNote(a)
  \/ \E a \in Addr : TxUpdateTitle(a)
  \/ \E a \in Addr : TxUpdateContent(a)
  \/ \E a \in Addr : TxDeleteNote(a)
  \/ \E a \in Addr : TxRestoreNote(a)
  \/ \E a \in Addr : TxShareNote(a)
  \/ \E a \in Addr : TxUnshareNote(a)
  \/ \E a \in Addr : TxSetNoteCategory(a)

SpecStore == InitStore /\ [][NextStore]_vars

\* ==================================================================== client
\* the sessions whose user writes notes (presses New Note)
Authors == {1}
\* the plaintexts a user types (a new note's content starts empty)
Plaintexts == {"v1", "v2"}
\* the title a user types
TypedTitles == {"t"}
\* what the editor shows for a locked note and after a failed decrypt
LockedText == "[Encrypted]"
FailedText == "[Decryption failed]"

\* cache keys: `my-${id}` and `shared-${owner}-${noteId}`
MyKey(id) == <<"my", ZeroAddr, id>>
SharedKey(owner, noteId) == <<"shared", owner, noteId>>
\* JavaScript truthiness of cache[key] for a string-valued cache
Truthy(cache, key) == key \in DOMAIN cache /\ cache[key] # ""
\* {...prev, [key]: value}
Put(cache, key, value) == [k \in DOMAIN cache \cup {key} |-> IF k = key THEN value ELSE cache[k]]

\* isLoading is false: the loading overlay does not cover the window
Idle(s) == pending[s].fn = "none"

\* Array.prototype.sort((s, b) => b.updatedAt - s.updatedAt): stable, newest first
RECURSIVE SortByUpdatedAt(_)
SortByUpdatedAt(list) ==
  IF Len(list) <= 1 THEN list
  ELSE LET rest == SortByUpdatedAt(Tail(list))
           x == Head(list)
           before == {i \in DOMAIN rest : rest[i].updatedAt > x.updatedAt}
           k == Cardinality(before)
       IN  SubSeq(rest, 1, k) \o <<x>> \o SubSeq(rest, k + 1, Len(rest))

\* a loadNotes that lists the deleted notes too
LoadedNotesWithDeleted(metadata) ==
  SortByUpdatedAt([i \in DOMAIN metadata |->
                     LET n == metadata[i]
                     IN  [id |-> n.id, title |-> IF n.title = "" THEN "Untitled" ELSE n.title,
                          createdAt |-> n.createdAt, updatedAt |-> n.updatedAt]])

\* loadNotes: the caller's notes that are not deleted, newest first
LoadedNotes(metadata) ==
  LET live(n) == ~n.isDeleted
      loaded == [i \in DOMAIN SelectSeq(metadata, live) |->
                   LET n == SelectSeq(metadata, live)[i]
                   IN  [id |-> n.id, title |-> IF n.title = "" THEN "Untitled" ELSE n.title,
                        createdAt |-> n.createdAt, updatedAt |-> n.updatedAt]]
  IN  SortByUpdatedAt(loaded)

\* loadSharedNotes: the received references whose title came back non-empty
LoadedSharedNotes(s) ==
  LET still(r) == r.title # ""
  IN  SelectSeq(getReceivedNotes(account[s]), still)

\* the Refresh menu item: loadNotes(); loadSharedNotes()
Refresh(s) ==
  /\ Idle(s)
  /\ notes' = [notes EXCEPT ![s] = LoadedNotes(getMyNotesMetadata(account[s]))]
  /\ sharedNotes' = [sharedNotes EXCEPT ![s] = LoadedSharedNotes(s)]
  /\ log' = [log EXCEPT ![s] = NoLog]
  /\ calls' = [calls EXCEPT ![s] = {"getMyNotesMetadata", "getReceivedNotes"}]
  /\ UNCHANGED <<chainVars, fheAcl, now, lastTx, fhe, ipfs, codec, variant, account,
                 pending, selectedNoteId,
                 selectedSharedNote, title, content, isNewNote, isDecrypted, contentCache,
                 keyCache>>

selectNote(s) ==
  \E i \in DOMAIN notes[s] :
    Idle(s) /\
    LET note == notes[s][i]
        hit == Truthy(contentCache[s], MyKey(note.id))
    IN  /\ selectedNoteId' = [selectedNoteId EXCEPT ![s] = note.id]
        /\ selectedSharedNote' = [selectedSharedNote EXCEPT ![s] = NullRef]
        /\ title' = [title EXCEPT ![s] = note.title]
        /\ isNewNote' = [isNewNote EXCEPT ![s] = FALSE]
        /\ isDecrypted' = [isDecrypted EXCEPT ![s] = hit]
        /\ content' = [content EXCEPT ![s] =
                         IF hit THEN contentCache[s][MyKey(note.id)] ELSE LockedText]
        /\ log' = [log EXCEPT ![s] = NoLog]
        /\ calls' = [calls EXCEPT ![s] = IF variant = "A" THEN {"getSharedWithList"} ELSE {}]
        /\ UNCHANGED <<chainVars, fheAcl, now, lastTx, fhe, ipfs, codec, variant, account,
                 pending, notes, sharedNotes,
                       contentCache, keyCache>>

selectSharedNote(s) ==
  \E i \in DOMAIN sharedNotes[s] :
    Idle(s) /\
    LET note == sharedNotes[s][i]
        cacheKey == SharedKey(note.owner, note.noteId)
        hit == Truthy(contentCache[s], cacheKey)
    IN  /\ selectedSharedNote' = [selectedSharedNote EXCEPT ![s] = note]
        /\ selectedNoteId' = [selectedNoteId EXCEPT ![s] = NullId]
        /\ title' = [title EXCEPT ![s] = IF variant = "A" THEN note.title \o " (shared)"
                                          ELSE note.title]
        /\ isNewNote' = [isNewNote EXCEPT ![s] = FALSE]
        /\ isDecrypted' = [isDecrypted EXCEPT ![s] = hit]
        /\ content' = [content EXCEPT ![s] = IF hit THEN contentCache[s][cacheKey] ELSE LockedText]
        /\ log' = [log EXCEPT ![s] = NoLog]
        /\ calls' = [calls EXCEPT ![s] = {}]
        /\ UNCHANGED <<chainVars, fheAcl, now, lastTx, fhe, ipfs, codec, variant, account,
                 pending, notes, sharedNotes,
                       contentCache, keyCache>>

handleNewNote(s) ==
  /\ Idle(s) /\ s \in Authors
  /\ selectedNoteId' = [selectedNoteId EXCEPT ![s] = NullId]
  /\ selectedSharedNote' = [selectedSharedNote EXCEPT ![s] = NullRef]
  /\ title' = [title EXCEPT ![s] = ""]
  /\ content' = [content EXCEPT ![s] = ""]
  /\ isNewNote' = [isNewNote EXCEPT ![s] = TRUE]
  /\ isDecrypted' = [isDecrypted EXCEPT ![s] = TRUE]
  /\ log' = [log EXCEPT ![s] = NoLog]
  /\ calls' = [calls EXCEPT ![s] = {}]
  /\ UNCHANGED <<chainVars, fheAcl, now, lastTx, fhe, ipfs, codec, variant, account,
                 pending, notes, sharedNotes,
                 contentCache, keyCache>>

\* the editor is rendered
EditorShown(s) == selectedNoteId[s] # NullId \/ selectedSharedNote[s] # NullRef \/ isNewNote[s]

\* ------------------------------------------------- blob store, cipher, oracle
\* the CID string the blob store gives its n-th blob, as character codes ("b1", "b2", ...)
CidOf(n) == <<98, 48 + n>>
\* a bytes value as the client library returns it: hex digits after "0x"
BytesToHex(bytes) ==
  [i \in 1..(2 * Len(bytes)) |->
     IF i % 2 = 1 THEN bytes[(i + 1) \div 2] \div 16 ELSE bytes[i \div 2] % 16]
\* cidBytes.slice(2).match(/.{1,2}/g).map(b => parseInt(b, 16)), then TextDecoder
HexToText(hex) ==
  [i \in 1..((Len(hex) + 1) \div 2) |->
     IF 2 * i <= Len(hex) THEN 16 * hex[2 * i - 1] + hex[2 * i] ELSE hex[2 * i - 1]]

\* AES-GCM under a fresh IV: only the key that sealed a blob opens it
aesEncrypt(plaintext, key) == [key |-> key, pt |-> plaintext]
aesDecrypt(encryptedData, key) ==
  IF encryptedData.key = key THEN [err |-> "", ret |-> encryptedData.pt]
  ELSE [err |-> "OperationError", ret |-> ""]

downloadFromIPFS(cid) ==
  IF \E n \in DOMAIN ipfs : CidOf(n) = cid
  THEN [err |-> "", ret |-> ipfs[CHOOSE n \in DOMAIN ipfs : CidOf(n) = cid]]
  ELSE [err |-> "Gateway error", ret |-> aesEncrypt("", << >>)]

\* what the oracle may do with a request: fail, answer with the cleartexts for some of
\* the handles (none, the first, all but the third, all) and nothing for the others, or
\* answer 0 for every handle
Honest == [throws |-> FALSE, answered |-> 1..NumChunks, zero |-> {}]
\* relayer.userDecrypt throws
Refusal == [throws |-> TRUE, answered |-> {}, zero |-> {}]
OracleResponses ==
  {[throws |-> TRUE, answered |-> {}, zero |-> {}],
   [throws |-> FALSE, answered |-> {}, zero |-> 1..NumChunks]}
    \cup {[throws |-> FALSE, answered |-> S, zero |-> {}] : S \in {{}, {1}, {1, 2, 4}, 1..NumChunks}}

\* relayer.userDecrypt refuses handles the user is not allowed on
Permitted(user, hs) == \A j \in DOMAIN hs : hs[j] \in DOMAIN fhe /\ <<hs[j], user>> \in fheAcl

\* extractDecryptedNumber for each handle of the result
requestDecryption4x64(user, hs, resp) ==
  IF resp.throws \/ ~Permitted(user, hs) THEN [err |-> "userDecrypt failed", ret |-> <<>>]
  ELSE [err |-> "", ret |-> [j \in DOMAIN hs |-> IF j \in resp.answered THEN fhe[hs[j]].val
                                                ELSE IF j \in resp.zero THEN BigZero ELSE Null]]

\* a test that takes only null and undefined for falsy
FalsyNullOnly(chunk) == chunk = Null

\* !chunk for a decrypted chunk: null, undefined and 0n are falsy
Falsy(chunk) == chunk = Null \/ chunk = BigZero

\* a test that rejects the response when any of the chunks is falsy
GatewayReturnedSomeNull(decryptedChunks) ==
  \E j \in 1..NumChunks : Falsy(decryptedChunks[j])

\* !decryptedChunks[0] && !decryptedChunks[1] && !decryptedChunks[2] && !decryptedChunks[3]
GatewayReturnedNulls(decryptedChunks) ==
  \A j \in 1..NumChunks : Falsy(decryptedChunks[j])

\* a handler that returns after an alert or silently: nothing but the report changes
Returned(s, op, out) ==
  /\ log' = [log EXCEPT ![s] = [NoLog EXCEPT !.op = op, !.out = out, !.noteId = selectedNoteId[s],
                                             !.at = now]]
  /\ calls' = [calls EXCEPT ![s] = {}]
  /\ UNCHANGED <<chainVars, fheAcl, now, lastTx, fhe, ipfs, codec, variant, account, pending,
                 notes, sharedNotes, selectedNoteId, selectedSharedNote, title, content,
                 isNewNote, isDecrypted, contentCache, keyCache>>

\* ----------------------------------------------------------------- handleSave
\* the call of handleSave that throws: none, one of the four steps before the
\* transaction, or the sending of the transaction (the wallet or the provider rejects it)
SaveFaults == {"none", "generateAESKey", "aesEncrypt", "uploadToIPFS",
               "createEncryptedInput4x64", "send"}
\* the category of the dropdown: 0 is the default, which handleNewNote sets
Categories == {0, 1}

\* catch (error): the message is alerted; nothing else of the component changes
Failed(s, op, out, made) ==
  /\ log' = [log EXCEPT ![s] = [NoLog EXCEPT !.op = op, !.out = out,
                                             !.noteId = selectedNoteId[s], !.at = now]]
  /\ calls' = [calls EXCEPT ![s] = made]

\* the title and content fields hold what the user typed (the content area is
\* read-only while the note is locked); the handler up to the point where the
\* transaction has been sent, when the call named by fault throws and the dropdown
\* shows category
handleSaveWith(s, fault, category) ==
  /\ Idle(s) /\ EditorShown(s) /\ selectedSharedNote[s] = NullRef
  /\ category # 0 => isNewNote[s] /\ variant = "A"
  /\ \E typedTitle \in TypedTitles \cup {title[s]},
        typedContent \in (IF isNewNote[s] \/ isDecrypted[s] THEN Plaintexts ELSE {}) \cup {content[s]} :
       IF typedTitle = ""
       THEN /\ typedContent = content[s] /\ fault = "none" /\ category = 0
            /\ Returned(s, "save", "Enter a title")
       ELSE /\ title' = [title EXCEPT ![s] = typedTitle]
            /\ content' = [content EXCEPT ![s] = typedContent]
            /\ UNCHANGED <<chainVars, fheAcl, now, lastTx, codec, variant, account, notes,
                           sharedNotes, selectedNoteId, selectedSharedNote, isNewNote,
                           isDecrypted, contentCache, keyCache>>
            /\ IF isNewNote[s] \/ isDecrypted[s]
               THEN LET keyBytes == SampleKey(Len(ipfs) + 1)
                        ipfsCid == CidOf(Len(ipfs) + 1)
                        steps == <<"generateAESKey", "aesEncrypt", "uploadToIPFS",
                                   "createEncryptedInput4x64", "send">>
                        at == IF fault = "none" THEN 6
                              ELSE CHOOSE k \in 1..5 : steps[k] = fault
                        made == {steps[k] : k \in {m \in 3..4 : m <= at}}
                    IN  /\ at > 3 => Len(ipfs) < MaxBlobs
                        /\ at > 4 => Cardinality(Inputs) < MaxInputs
                        /\ ipfs' = IF at > 3 THEN Append(ipfs, aesEncrypt(typedContent, keyBytes))
                                   ELSE ipfs
                        /\ fhe' = IF at > 4 THEN Encrypted(account[s], SplitKey(keyBytes), 64)
                                  ELSE fhe
                        /\ IF fault # "none"
                           THEN Failed(s, "save", fault, made) /\ UNCHANGED pending
                           ELSE /\ pending' = [pending EXCEPT ![s] =
                                     [NoPending EXCEPT
                                        !.fn = IF isNewNote[s] THEN "createNote" ELSE "updateContent",
                                        !.noteId = selectedNoteId[s], !.title = typedTitle,
                                        !.cid = ipfsCid, !.hs = FreshHandles(NumChunks),
                                        !.keyBytes = keyBytes, !.pt = typedContent, !.at = now,
                                        !.category = category,
                                        !.prior = userNotes[account[s]]]]
                                /\ calls' = [calls EXCEPT ![s] =
                                               {"uploadToIPFS", "createEncryptedInput4x64"}]
                                /\ UNCHANGED log
               ELSE /\ fault \in {"none", "send"}
                    /\ UNCHANGED <<fhe, ipfs>>
                    /\ IF fault # "none"
                       THEN Failed(s, "save", fault, {}) /\ UNCHANGED pending
                       ELSE /\ pending' = [pending EXCEPT ![s] =
                                 [NoPending EXCEPT !.fn = "updateTitle",
                                                   !.noteId = selectedNoteId[s],
                                                   !.title = typedTitle, !.at = now,
                                                   !.prior = userNotes[account[s]]]]
                            /\ calls' = [calls EXCEPT ![s] = {}]
                            /\ UNCHANGED log

handleSave(s) == \E fault \in SaveFaults, category \in Categories : handleSaveWith(s, fault, category)

\* what a finished handler reports about its transaction
Report(op, p, err) ==
  [op |-> op, out |-> err, noteId |-> p.noteId, recipient |-> p.recipient, at |-> p.at,
   unshared |-> p.unshared]

\* the end of a successful content save: cache, reload, select, and lock where the
\* variant locks
Saved(s, p, actualNoteId) ==
  /\ contentCache' = [contentCache EXCEPT ![s] = Put(@, MyKey(actualNoteId), p.pt)]
  /\ keyCache' = [keyCache EXCEPT ![s] =
                    IF variant = "B" THEN Put(@, MyKey(actualNoteId), p.keyBytes) ELSE @]
  /\ notes' = [notes EXCEPT ![s] = LoadedNotes(userNotes'[account[s]])]
  /\ isNewNote' = [isNewNote EXCEPT ![s] = FALSE]
  /\ selectedNoteId' = [selectedNoteId EXCEPT ![s] = actualNoteId]
  /\ isDecrypted' = [isDecrypted EXCEPT ![s] = IF variant = "A" THEN FALSE ELSE @]
  /\ content' = [content EXCEPT ![s] = IF variant = "A" THEN LockedText ELSE @]

\* what can throw between the mined createNote and the sent setNoteCategory
CategoryFaults == {"none", "createEncryptedInput", "send"}

\* from tx.wait() on, for createNote / updateContent: to the end of the handler, or,
\* for a new note with a category, to the point where setNoteCategory has been sent
handleSaveMinedWith(s, fault) ==
  /\ pending[s].fn \in {"createNote", "updateContent"} /\ now < MaxTime
  /\ LET p == pending[s]
         a == account[s]
         new == p.fn = "createNote"
         err == IF new THEN createNoteRevert(a, p.title, p.cid, p.hs)
                ELSE updateContentRevert(a, p.noteId, p.hs)
         actualNoteId == IF new THEN Len(userNotes[a]) ELSE p.noteId
         categorised == err = "" /\ new /\ p.category > 0
         unchanged == UNCHANGED <<notes, selectedNoteId, isNewNote, isDecrypted, content,
                                  contentCache, keyCache>>
     IN  /\ Tx(p.fn, a, err)
         /\ fault # "none" => categorised
         /\ UNCHANGED <<ipfs, codec, variant, account, sharedNotes, selectedSharedNote, title>>
         /\ IF err # ""
            THEN /\ Reverted /\ unchanged /\ UNCHANGED fhe
                 /\ pending' = [pending EXCEPT ![s] = NoPending]
                 /\ calls' = [calls EXCEPT ![s] = @ \cup {p.fn}]
                 /\ log' = [log EXCEPT ![s] = [Report("save", p, err) EXCEPT !.noteId = actualNoteId]]
            ELSE /\ IF new THEN createNote(a, p.title, p.cid, p.hs)
                    ELSE updateContent(a, p.noteId, p.cid, p.hs)
                 /\ IF ~categorised
                    THEN /\ Saved(s, p, actualNoteId) /\ UNCHANGED fhe
                         /\ pending' = [pending EXCEPT ![s] = NoPending]
                         /\ calls' = [calls EXCEPT ![s] = @ \cup {p.fn}]
                         /\ log' = [log EXCEPT ![s] =
                                      [Report("save", p, "") EXCEPT !.noteId = actualNoteId]]
                    ELSE /\ unchanged
                         /\ calls' = [calls EXCEPT ![s] = @ \cup {p.fn, "createEncryptedInput"}]
                         /\ fault # "createEncryptedInput" => Cardinality(Inputs) < MaxInputs
                         /\ fhe' = IF fault = "createEncryptedInput" THEN fhe
                                   ELSE Encrypted(a, <<(<<p.category>>)>>, 8)
                         /\ IF fault # "none"
                            THEN /\ pending' = [pending EXCEPT ![s] = NoPending]
                                 /\ log' = [log EXCEPT ![s] =
                                              [Report("save", p, fault) EXCEPT !.noteId = actualNoteId]]
                            ELSE /\ pending' = [pending EXCEPT ![s] =
                                      [p EXCEPT !.fn = "setNoteCategory", !.noteId = actualNoteId,
                                                !.h = Len(fhe) + 1]]
                                 /\ UNCHANGED log

handleSaveMined(s) == \E fault \in CategoryFaults : handleSaveMinedWith(s, fault)

\* from catTx.wait() on
handleSaveCategoryMined(s) ==
  /\ pending[s].fn = "setNoteCategory"
  /\ LET p == pending[s]
         a == account[s]
         err == setNoteCategoryRevert(a, p.noteId, p.h)
     IN  /\ err = "" => now < MaxTime
         /\ Tx(p.fn, a, err)
         /\ pending' = [pending EXCEPT ![s] = NoPending]
         /\ calls' = [calls EXCEPT ![s] = @ \cup {p.fn}]
         /\ log' = [log EXCEPT ![s] = Report("save", p, err)]
         /\ IF err # ""
            THEN /\ Reverted
                 /\ UNCHANGED <<notes, selectedNoteId, isNewNote, isDecrypted, content,
                                contentCache, keyCache>>
            ELSE /\ setNoteCategory(a, p.noteId, p.h)
                 /\ Saved(s, p, p.noteId)
         /\ UNCHANGED <<fhe, ipfs, codec, variant, account, sharedNotes, selectedSharedNote, title>>

\* from tx.wait() on, for the title-only update
handleSaveTitleMined(s) ==
  /\ pending[s].fn = "updateTitle" /\ now < MaxTime
  /\ LET p == pending[s]
         err == updateTitleRevert(account[s], p.noteId)
     IN  /\ Tx(p.fn, account[s], err)
         /\ pending' = [pending EXCEPT ![s] = NoPending]
         /\ calls' = [calls EXCEPT ![s] = @ \cup {p.fn}]
         /\ log' = [log EXCEPT ![s] = Report("save", p, err)]
         /\ IF err # ""
            THEN Reverted /\ UNCHANGED notes
            ELSE /\ updateTitle(account[s], p.noteId, p.title)
                 /\ notes' = [notes EXCEPT ![s] =
                      [i \in DOMAIN @ |-> IF @[i].id = p.noteId THEN [@[i] EXCEPT !.title = p.title]
                                          ELSE @[i]]]
         /\ UNCHANGED <<fhe, ipfs, codec, variant, account, sharedNotes, selectedNoteId,
                        selectedSharedNote, title, content, isNewNote, isDecrypted, contentCache,
                        keyCache>>

\* -------------------------------------------------------------- handleDecrypt
\* what a run of handleDecrypt by session s comes to when it was started with the
\* selection (ref, noteId) and the oracle responds with resp: the stage that throws
\* (7: none), the message, the calls made, the text and the key
DecryptionOf(s, ref, noteId, resp) ==
  LET a == account[s]
      isShared == ref # NullRef
      cidR == IF isShared THEN getSharedNoteCID(a, ref.owner, ref.noteId)
              ELSE getNoteCID(a, noteId)
      keyR == IF isShared THEN getSharedNoteKeyChunks(a, ref.owner, ref.noteId)
              ELSE getNoteKeyChunks(a, noteId)
      views == IF isShared THEN <<"getSharedNoteCID", "getSharedNoteKeyChunks">>
               ELSE <<"getNoteCID", "getNoteKeyChunks">>
      none == [key |-> << >>, text |-> ""]
  IN  IF cidR.err # "" THEN [stage |-> 1, error |-> cidR.err, made |-> {views[1]}] @@ none
      ELSE IF keyR.err # "" THEN [stage |-> 2, error |-> keyR.err, made |-> {views[1], views[2]}] @@ none
      ELSE
        \* Step 2: FHE decrypt key chunks
        LET dec == requestDecryption4x64(a, keyR.ret, resp)
            made3 == {views[1], views[2], "userDecrypt"}
        IN  IF dec.err # "" THEN [stage |-> 3, error |-> dec.err, made |-> made3] @@ none
            ELSE IF GatewayReturnedNulls(dec.ret)
            THEN [stage |-> 4, error |-> "Gateway returned null values", made |-> made3] @@ none
            ELSE
              \* Step 3: fetch the blob; Step 4: AES decrypt
              LET keyBytes == JoinChunks([j \in 1..NumChunks |->
                                            IF Falsy(dec.ret[j]) THEN BigZero ELSE dec.ret[j]])
                  blob == downloadFromIPFS(HexToText(BytesToHex(cidR.ret)))
                  made5 == made3 \cup {"downloadFromIPFS"}
              IN  IF blob.err # "" THEN [stage |-> 5, error |-> blob.err, made |-> made5] @@ none
                  ELSE LET text == aesDecrypt(blob.ret, keyBytes)
                       IN  [stage |-> IF text.err # "" THEN 6 ELSE 7, error |-> text.err,
                            made |-> made5 \cup {"aesDecrypt"}, key |-> keyBytes,
                            text |-> text.ret]

\* the run of handleDecrypt on the selection of the current render
Decryption(s, resp) == DecryptionOf(s, selectedSharedNote[s], selectedNoteId[s], resp)

\* a catch block that shows the note as unlocked with the text of the failure
DecryptFailedUnlocking(s) ==
  /\ content' = [content EXCEPT ![s] = FailedText]
  /\ isDecrypted' = [isDecrypted EXCEPT ![s] = TRUE]
  /\ contentCache' = [contentCache EXCEPT ![s] = Put(@, MyKey(selectedNoteId[s]), FailedText)]
  /\ UNCHANGED keyCache

\* catch (error): the failure is logged and shown in place of the content
DecryptFailed(s) ==
  /\ content' = [content EXCEPT ![s] = FailedText]
  /\ UNCHANGED <<isDecrypted, contentCache, keyCache>>

\* the Decrypt button is rendered for an existing note that is not unlocked; the run
\* in which the oracle responds with resp
handleDecryptOn(s, resp) ==
  /\ Idle(s) /\ EditorShown(s) /\ ~isNewNote[s] /\ ~isDecrypted[s]
  /\ \E d \in {Decryption(s, resp)} :
       LET ref == selectedSharedNote[s]
           isShared == ref # NullRef
           cacheKey == IF isShared THEN SharedKey(ref.owner, ref.noteId) ELSE MyKey(selectedNoteId[s])
       IN  /\ calls' = [calls EXCEPT ![s] = d.made]
           /\ log' = [log EXCEPT ![s] =
                        [op |-> "decrypt", out |-> d.error,
                         noteId |-> IF isShared THEN ref.noteId ELSE selectedNoteId[s],
                         recipient |-> IF isShared THEN ref.owner ELSE ZeroAddr, at |-> now,
                         unshared |-> FALSE]]
           /\ IF d.error = ""
              THEN /\ content' = [content EXCEPT ![s] = d.text]
                   /\ isDecrypted' = [isDecrypted EXCEPT ![s] = TRUE]
                   /\ contentCache' = [contentCache EXCEPT ![s] = Put(@, cacheKey, d.text)]
                   /\ keyCache' = [keyCache EXCEPT ![s] = Put(@, cacheKey, d.key)]
              ELSE DecryptFailed(s)
           /\ UNCHANGED <<chainVars, fheAcl, now, lastTx, fhe, ipfs, codec, variant, account,
                          pending, notes, sharedNotes, selectedNoteId, selectedSharedNote, title,
                          isNewNote>>

handleDecrypt(s) == \E resp \in OracleResponses : handleDecryptOn(s, resp)

\* ---------------------------------------------------------------- handleShare
\* a text that does not match /^0x[a-fA-F0-9]{40}$/
Malformed == -2
\* what is typed into the share dialog: an address (the zero address is well-formed) or
\* a text that is none; the dialog's Share button is disabled while the field is empty
Recipients == Addr \cup {ZeroAddr, Malformed}

\* a lookup that gives some key when the cache has none for the note
CachedKeyAny(s) ==
  IF MyKey(selectedNoteId[s]) \in DOMAIN keyCache[s] THEN keyCache[s][MyKey(selectedNoteId[s])]
  ELSE SampleKey(1)

\* keyCache[`my-${selectedNoteId}`]: undefined when the cache has no key for the note
CachedKey(s) ==
  IF MyKey(selectedNoteId[s]) \in DOMAIN keyCache[s] THEN keyCache[s][MyKey(selectedNoteId[s])]
  ELSE Null

\* the guard on the note id: `!selectedNoteId` in one variant, `=== null` in the other
NoNoteToShare(id) == IF variant = "A" THEN id = NullId \/ id = 0 ELSE id = NullId

\* the Share button opens the dialog for an own, existing, unlocked note; this is the
\* handler, with shareRecipient typed into the dialog, up to the point where the
\* transaction has been sent
handleShareTo(s, shareRecipient) ==
  /\ Idle(s) /\ EditorShown(s) /\ ~isNewNote[s] /\ selectedSharedNote[s] = NullRef
  /\ isDecrypted[s]
  /\   IF NoNoteToShare(selectedNoteId[s]) THEN Returned(s, "share", "returned")
       ELSE IF shareRecipient = Malformed THEN Returned(s, "share", "Invalid Ethereum address")
       ELSE IF shareRecipient = account[s] THEN Returned(s, "share", "Cannot share with yourself")
       ELSE IF ~isDecrypted[s] THEN Returned(s, "share", "Please decrypt the note first")
       ELSE IF CachedKey(s) = Null THEN Returned(s, "share", "Key not found in cache")
       ELSE /\ Cardinality(Inputs) < MaxInputs
            /\ fhe' = Encrypted(account[s], SplitKey(CachedKey(s)), 64)
            /\ pending' = [pending EXCEPT ![s] =
                 [NoPending EXCEPT !.fn = "shareNote", !.noteId = selectedNoteId[s],
                                   !.recipient = shareRecipient, !.hs = FreshHandles(NumChunks),
                                   !.at = now,
                                   !.unshared = ~Active(account[s], selectedNoteId[s],
                                                        shareRecipient)]]
            /\ calls' = [calls EXCEPT ![s] = {"createEncryptedInput4x64"}]
            /\ UNCHANGED <<chainVars, fheAcl, now, lastTx, ipfs, codec, variant, account, notes,
                           sharedNotes, selectedNoteId, selectedSharedNote, title, content,
                           isNewNote, isDecrypted, contentCache, keyCache, log>>

handleShare(s) == \E shareRecipient \in Recipients : handleShareTo(s, shareRecipient)

handleShareMined(s) ==
  /\ pending[s].fn = "shareNote" /\ now < MaxTime
  /\ LET p == pending[s]
         err == shareNoteRevert(account[s], p.noteId, p.recipient, p.hs)
     IN  /\ Tx(p.fn, account[s], err)
         /\ pending' = [pending EXCEPT ![s] = NoPending]
         /\ calls' = [calls EXCEPT ![s] = @ \cup {p.fn}]
         /\ log' = [log EXCEPT ![s] = Report("share", p, err)]
         /\ IF err # "" THEN Reverted ELSE shareNote(account[s], p.noteId, p.recipient, p.hs)
         /\ UNCHANGED <<fhe, ipfs, codec, variant, account, notes, sharedNotes, selectedNoteId,
                        selectedSharedNote, title, content, isNewNote, isDecrypted, contentCache,
                        keyCache>>

\* --------------------------------------------------------------- handleDelete
handleDelete(s) ==
  /\ Idle(s) /\ EditorShown(s) /\ ~isNewNote[s] /\ selectedSharedNote[s] = NullRef
  /\ selectedNoteId[s] # NullId
  /\ pending' = [pending EXCEPT ![s] =
                   [NoPending EXCEPT !.fn = "deleteNote", !.noteId = selectedNoteId[s], !.at = now]]
  /\ calls' = [calls EXCEPT ![s] = {}]
  /\ UNCHANGED <<chainVars, fheAcl, now, lastTx, fhe, ipfs, codec, variant, account, notes,
                 sharedNotes, selectedNoteId, selectedSharedNote, title, content, isNewNote,
                 isDecrypted, contentCache, keyCache, log>>

handleDeleteMined(s) ==
  /\ pending[s].fn = "deleteNote" /\ now < MaxTime
  /\ LET p == pending[s]
         err == deleteNoteRevert(account[s], p.noteId)
         kept(n) == n.id # p.noteId
     IN  /\ Tx(p.fn, account[s], err)
         /\ pending' = [pending EXCEPT ![s] = NoPending]
         /\ calls' = [calls EXCEPT ![s] = @ \cup {p.fn}]
         /\ log' = [log EXCEPT ![s] = Report("delete", p, err)]
         /\ IF err # ""
            THEN Reverted /\ UNCHANGED <<notes, selectedNoteId, title, content, contentCache>>
            ELSE /\ deleteNote(account[s], p.noteId)
                 /\ notes' = [notes EXCEPT ![s] = SelectSeq(@, kept)]
                 /\ selectedNoteId' = [selectedNoteId EXCEPT ![s] = NullId]
                 /\ title' = [title EXCEPT ![s] = ""]
                 /\ content' = [content EXCEPT ![s] = ""]
                 /\ contentCache' = [contentCache EXCEPT ![s] =
                      [k \in DOMAIN @ \ {MyKey(p.noteId)} |-> @[k]]]
         /\ UNCHANGED <<fhe, ipfs, codec, variant, account, sharedNotes, selectedSharedNote,
                        isNewNote, isDecrypted, keyCache>>

\* ============================================================ the application
\* the client has no revoke or restore; an owner does them by calling the contract, and
\* the calls that would revert are left to the store's own specification. Saves run
\* without a thrown call and with the default category; SpecSave has the others
Revoke(a) == TxUnshareNote(a) /\ lastTx'.err = ""
Restore(a) == TxRestoreNote(a) /\ lastTx'.err = ""

Init ==
  /\ ChainInit
  /\ fhe = << >>
  /\ codec = CodecIdle
  /\ variant \in {"A", "B"}
  /\ account = [s \in Sess |-> s]
  /\ ClientInit

Next ==
  \/ \E s \in Sess : Refresh(s)
  \/ \E s \in Sess : selectNote(s)
  \/ \E s \in Sess : selectSharedNote(s)
  \/ \E s \in Sess : handleNewNote(s)
  \/ \E s \in Sess : handleSaveWith(s, "none", 0)
  \/ \E s \in Sess : handleSaveMined(s)
  \/ \E s \in Sess : handleSaveTitleMined(s)
  \/ \E s \in Sess : handleDecrypt(s)
  \/ \E s \in Sess : handleShare(s)
  \/ \E s \in Sess : handleShareMined(s)
  \/ \E s \in Sess : handleDelete(s)
  \/ \E s \in Sess : handleDeleteMined(s)
  \/ \E a \in Addr : Revoke(a)
  \/ \E a \in Addr : Restore(a)

Spec == Init /\ [][Next]_vars

\* ------------------------------------------------- two sessions of one owner
\* the same wallet connected in two browser tabs: each tab has its own component state
\* and caches, both send transactions from the one account, and the chain mines them one
\* at a time in either order. The tabs write new notes, unlock notes and share them;
\* they do not edit or delete a saved note, and the oracle answers every
\* request
Owner == 1

InitRace ==
  /\ ChainInit
  /\ fhe = << >>
  /\ codec = CodecIdle
  /\ variant \in {"A", "B"}
  /\ account = [s \in Sess |-> Owner]
  /\ ClientInit

NextRace ==
  \/ \E s \in Sess : Refresh(s)
  \/ \E s \in Sess : selectNote(s)
  \/ \E s \in Sess : handleNewNote(s)
  \/ \E s \in Sess : isNewNote[s] /\ handleSaveWith(s, "none", 0)
  \/ \E s \in Sess : handleSaveMined(s)
  \/ \E s \in Sess : handleDecryptOn(s, Honest)
  \/ \E s \in Sess : handleShare(s)
  \/ \E s \in Sess : handleShareMined(s)

SpecRace == InitRace /\ [][NextRace]_vars

\* ------------------------------------------------------------------ saving
\* an owner who writes, unlocks and rewrites notes, with every call of a save that can
\* throw and with a category chosen for a new note; the oracle answers every request
NextSave ==
  \/ \E s \in Sess : Refresh(s)
  \/ \E s \in Sess : selectNote(s)
  \/ \E s \in Sess : handleNewNote(s)
  \/ \E s \in Sess : handleSave(s)
  \/ \E s \in Sess : handleSaveMined(s)
  \/ \E s \in Sess : handleSaveCategoryMined(s)
  \/ \E s \in Sess : handleSaveTitleMined(s)
  \/ \E s \in Sess : handleDecryptOn(s, Honest)

SpecSave == Init /\ [][NextSave]_vars

\* --------------------------------------------------------- the wallet session
\* the wallet disconnects and connects again, or switches, to another account: the
\* component stays mounted with all of its state; useFhevm sets itself up for the new
\* address, and when it is ready the effect on [isConnected, isReady, contractAddress]
\* runs loadNotes and loadSharedNotes for the new account
accountChanged(s) ==
  \E b \in Addr \ {account[s]} :
    LET still(r) == r.title # ""
    IN  /\ Idle(s)
        /\ account' = [account EXCEPT ![s] = b]
        /\ notes' = [notes EXCEPT ![s] = LoadedNotes(getMyNotesMetadata(b))]
        /\ sharedNotes' = [sharedNotes EXCEPT ![s] = SelectSeq(getReceivedNotes(b), still)]
        /\ log' = [log EXCEPT ![s] = NoLog]
        /\ calls' = [calls EXCEPT ![s] = {"getMyNotesMetadata", "getReceivedNotes"}]
        /\ UNCHANGED <<chainVars, fheAcl, now, lastTx, fhe, ipfs, codec, variant, pending,
                       selectedNoteId, selectedSharedNote, title, content, isNewNote,
                       isDecrypted, contentCache, keyCache>>

\* one browser window whose wallet changes between the two accounts; notes are written,
\* unlocked and shared, and the oracle answers every request
NextSwitch ==
  \/ \E s \in Authors : accountChanged(s)
  \/ \E s \in Authors : Refresh(s)
  \/ \E s \in Authors : selectNote(s)
  \/ \E s \in Authors : handleNewNote(s)
  \/ \E s \in Authors : isNewNote[s] /\ handleSaveWith(s, "none", 0)
  \/ \E s \in Authors : handleSaveMined(s)
  \/ \E s \in Authors : handleDecryptOn(s, Honest)
  \/ \E s \in Authors : handleShare(s)
  \/ \E s \in Authors : handleShareMined(s)

SpecSwitch == Init /\ [][NextSwitch]_vars

\* ------------------------------------------------ asynchronous continuations
\* the handlers are async functions: between an await and its resumption other events
\* of the window are handled. `codec` holds the selectNote calls that wait for
\* getSharedWithList, each with the note and the cache entry of the render they were
\* started in
MaxInFlight == 2
NoneInFlight == [pc |-> "async", selects |-> {}]

\* selectNote of variant A up to `await loadSharedWithList(note.id)`
selectNoteAwaits(s) ==
  \E i \in DOMAIN notes[s] :
    /\ Idle(s) /\ variant = "A" /\ Cardinality(codec.selects) < MaxInFlight
    /\ LET note == notes[s][i]
           hit == Truthy(contentCache[s], MyKey(note.id))
       IN  /\ selectedNoteId' = [selectedNoteId EXCEPT ![s] = note.id]
           /\ selectedSharedNote' = [selectedSharedNote EXCEPT ![s] = NullRef]
           /\ title' = [title EXCEPT ![s] = note.title]
           /\ isNewNote' = [isNewNote EXCEPT ![s] = FALSE]
           /\ isDecrypted' = [isDecrypted EXCEPT ![s] = FALSE]
           /\ codec' = [codec EXCEPT !.selects = @ \cup
                          {[s |-> s, id |-> note.id, hit |-> hit,
                            text |-> IF hit THEN contentCache[s][MyKey(note.id)] ELSE LockedText]}]
           /\ log' = [log EXCEPT ![s] = NoLog]
           /\ calls' = [calls EXCEPT ![s] = {"getSharedWithList"}]
           /\ UNCHANGED <<chainVars, fheAcl, now, lastTx, fhe, ipfs, variant, account, pending,
                          notes, sharedNotes, content, contentCache, keyCache>>

\* selectNote of variant A from the await on: the cache check of the render it was
\* started in
selectNoteResumes(s) ==
  \E c \in codec.selects :
    /\ c.s = s
    /\ content' = [content EXCEPT ![s] = c.text]
    /\ isDecrypted' = [isDecrypted EXCEPT ![s] = IF c.hit THEN TRUE ELSE @]
    /\ codec' = [codec EXCEPT !.selects = @ \ {c}]
    /\ UNCHANGED <<chainVars, fheAcl, now, lastTx, fhe, ipfs, variant, account, pending, notes,
                   sharedNotes, selectedNoteId, selectedSharedNote, title, isNewNote,
                   contentCache, keyCache, log, calls>>

\* handleDecrypt up to its first await: the overlay is shown and the selection of this
\* render is what the rest of the run works on
handleDecryptSent(s) ==
  /\ Idle(s) /\ EditorShown(s) /\ ~isNewNote[s] /\ ~isDecrypted[s]
  /\ selectedSharedNote[s] = NullRef
  /\ pending' = [pending EXCEPT ![s] = [NoPending EXCEPT !.fn = "userDecrypt",
                                                         !.noteId = selectedNoteId[s],
                                                         !.at = now]]
  /\ calls' = [calls EXCEPT ![s] = {}]
  /\ log' = [log EXCEPT ![s] = NoLog]
  /\ UNCHANGED <<chainVars, fheAcl, now, lastTx, fhe, ipfs, codec, variant, account, notes,
                 sharedNotes, selectedNoteId, selectedSharedNote, title, content, isNewNote,
                 isDecrypted, contentCache, keyCache>>

\* handleDecrypt from the last await on, the oracle having responded with resp
handleDecryptCompleted(s, resp) ==
  /\ pending[s].fn = "userDecrypt"
  /\ \E d \in {DecryptionOf(s, NullRef, pending[s].noteId, resp)} :
       LET cacheKey == MyKey(pending[s].noteId)
       IN  /\ calls' = [calls EXCEPT ![s] = d.made]
           /\ log' = [log EXCEPT ![s] =
                        [op |-> "decrypt", out |-> d.error, noteId |-> pending[s].noteId,
                         recipient |-> ZeroAddr, at |-> now, unshared |-> FALSE]]
           /\ IF d.error = ""
              THEN /\ content' = [content EXCEPT ![s] = d.text]
                   /\ isDecrypted' = [isDecrypted EXCEPT ![s] = TRUE]
                   /\ contentCache' = [contentCache EXCEPT ![s] = Put(@, cacheKey, d.text)]
                   /\ keyCache' = [keyCache EXCEPT ![s] = Put(@, cacheKey, d.key)]
              ELSE DecryptFailed(s)
           /\ pending' = [pending EXCEPT ![s] = NoPending]
           /\ UNCHANGED <<chainVars, fheAcl, now, lastTx, fhe, ipfs, codec, variant, account,
                          notes, sharedNotes, selectedNoteId, selectedSharedNote, title,
                          isNewNote>>

\* the New Note button is disabled by !isReady only: focused, it answers the keyboard
\* while the overlay of a decrypt covers the window
handleNewNoteCovered(s) ==
  /\ pending[s].fn = "userDecrypt" /\ s \in Authors
  /\ selectedNoteId' = [selectedNoteId EXCEPT ![s] = NullId]
  /\ selectedSharedNote' = [selectedSharedNote EXCEPT ![s] = NullRef]
  /\ title' = [title EXCEPT ![s] = ""]
  /\ content' = [content EXCEPT ![s] = ""]
  /\ isNewNote' = [isNewNote EXCEPT ![s] = TRUE]
  /\ isDecrypted' = [isDecrypted EXCEPT ![s] = TRUE]
  /\ log' = [log EXCEPT ![s] = NoLog]
  /\ calls' = [calls EXCEPT ![s] = {}]
  /\ UNCHANGED <<chainVars, fheAcl, now, lastTx, fhe, ipfs, codec, variant, account,
                 pending, notes, sharedNotes, contentCache, keyCache>>

InitAsync ==
  /\ ChainInit
  /\ fhe = << >>
  /\ codec = NoneInFlight
  /\ variant \in {"A", "B"}
  /\ account = [s \in Sess |-> s]
  /\ ClientInit

\* one window in which the user writes notes, selects them and unlocks them
NextAsync ==
  \/ \E s \in Authors : variant = "B" /\ selectNote(s)
  \/ \E s \in Authors : selectNoteAwaits(s)
  \/ \E s \in Authors : selectNoteResumes(s)
  \/ \E s \in Authors : handleNewNote(s)
  \/ \E s \in Authors : handleSaveWith(s, "none", 0)
  \/ \E s \in Authors : handleSaveMined(s)
  \/ \E s \in Authors : handleDecryptSent(s)
  \/ \E s \in Authors, resp \in {Honest, Refusal} : handleDecryptCompleted(s, resp)

SpecAsync == InitAsync /\ [][NextAsync]_vars

\* the same window with a user who also works the keyboard while the overlay is shown
NextCovered ==
  \/ \E s \in Authors : variant = "B" /\ selectNote(s)
  \/ \E s \in Authors : selectNoteAwaits(s)
  \/ \E s \in Authors : selectNoteResumes(s)
  \/ \E s \in Authors : handleNewNote(s)
  \/ \E s \in Authors : handleNewNoteCovered(s)
  \/ \E s \in Authors : handleSaveWith(s, "none", 0)
  \/ \E s \in Authors : handleSaveMined(s)
  \/ \E s \in Authors : handleDecryptSent(s)
  \/ \E s \in Authors, resp \in {Honest, Refusal} : handleDecryptCompleted(s, resp)

SpecCovered == InitAsync /\ [][NextCovered]_vars

\* ------------------------------------------------------ the views of grants
\* the ledger takes any string for a title; transactions are mined up to MaxViewTime
MaxViewTime == 5
ViewTitles == {"", "t"}

\* a createNote transaction that is mined
createNoteMined(a) ==
  \E noteTitle \in ViewTitles, hs \in Batches(a, 64) :
    /\ createNoteRevert(a, noteTitle, <<1>>, hs) = ""
    /\ now < MaxViewTime /\ TotalNotes < MaxNotes
    /\ Tx("createNote", a, "")
    /\ createNote(a, noteTitle, <<1>>, hs)
    /\ UNCHANGED <<fhe, ipfs, codec, clientVars>>

\* a shareNote transaction that is mined
shareNoteMined(a) ==
  \E noteId \in NoteIds, recipient \in Addr, hs \in Batches(a, 64) :
    /\ shareNoteRevert(a, noteId, recipient, hs) = ""
    /\ now < MaxViewTime
    /\ Tx("shareNote", a, "")
    /\ shareNote(a, noteId, recipient, hs)
    /\ UNCHANGED <<fhe, ipfs, codec, clientVars>>

\* an unshareNote transaction that is mined
unshareNoteMined(a) ==
  \E noteId \in NoteIds, recipient \in Addr :
    /\ unshareNoteRevert(a, noteId, recipient) = ""
    /\ now < MaxViewTime
    /\ Tx("unshareNote", a, "")
    /\ unshareNote(a, noteId, recipient)
    /\ UNCHANGED <<fhe, ipfs, codec, clientVars>>

\* owners create notes, grant and revoke; the sessions fetch their lists
NextView ==
  \/ \E a \in Addr : createNoteMined(a)
  \/ \E a \in Addr : shareNoteMined(a)
  \/ \E a \in Addr : unshareNoteMined(a)
  \/ \E s \in Sess : Refresh(s)

SpecView == InitStore /\ [][NextView]_vars

\* ------------------------------------------------------------ FhevmProvider
\* `codec` holds the provider: its React state (status, error, ethersSigner, relayer),
\* what wagmi reports of the wallet ("none": not connected, no walletClient; "sepolia":
\* connected on the supported network; "other": connected on another network), the
\* timer the effect has set with the wallet of its render, and the runs of
\* setupProvider that wait in an await
MaxRuns == 2
WalletStates == {"none", "sepolia", "other"}
NoTimer == "unset"

\* useState initial values; the effect of the first render has set its timer
InitFhevm ==
  /\ ChainInit
  /\ fhe = << >>
  /\ codec = [pc |-> "fhevm", status |-> "idle", error |-> FALSE, ethersSigner |-> FALSE,
              relayer |-> FALSE, wallet |-> "none", timer |-> "none", runs |-> << >>]
  /\ variant = "A"
  /\ account = [s \in Sess |-> s]
  /\ ClientInit

Provider(next) ==
  /\ codec' = next
  /\ UNCHANGED <<chainVars, fheAcl, now, lastTx, fhe, ipfs, clientVars>>

\* a dependency of the effect changes: the cleanup clears the timer and the effect
\* sets a new one for the setupProvider of this render
walletChanged(w) ==
  /\ w # codec.wallet
  /\ Provider([codec EXCEPT !.wallet = w, !.timer = w])

\* the timer fires: setupProvider up to its return or its first await
setupProvider ==
  /\ codec.timer # NoTimer
  /\ codec.timer = "sepolia" => Len(codec.runs) < MaxRuns
  /\ Provider(
       CASE codec.timer = "none" ->
              [codec EXCEPT !.timer = NoTimer, !.ethersSigner = FALSE, !.relayer = FALSE,
                            !.status = "idle"]
         [] codec.timer = "other" ->
              [codec EXCEPT !.timer = NoTimer, !.status = "unsupported", !.error = TRUE]
         [] OTHER ->
              [codec EXCEPT !.timer = NoTimer, !.status = "loading", !.error = FALSE,
                            !.runs = Append(@, "getSigner")])

\* the sequence without its i-th element
Without(seq, i) == SubSeq(seq, 1, i - 1) \o SubSeq(seq, i + 1, Len(seq))

\* provider.getSigner() returns: the signer is set and the SDK is loaded and
\* initialised next
getSignerReturned(i) ==
  /\ i \in DOMAIN codec.runs /\ codec.runs[i] = "getSigner"
  /\ Provider([codec EXCEPT !.ethersSigner = TRUE, !.runs[i] = "createInstance"])

\* createInstance returns: setRelayer, setStatus(READY)
setupProviderReady(i) ==
  /\ i \in DOMAIN codec.runs /\ codec.runs[i] = "createInstance"
  /\ Provider([codec EXCEPT !.relayer = TRUE, !.status = "ready", !.runs = Without(@, i)])

\* an await of the try block throws
setupProviderThrew(i) ==
  /\ i \in DOMAIN codec.runs
  /\ Provider([codec EXCEPT !.error = TRUE, !.status = "error", !.runs = Without(@, i)])

\* setStatus(IDLE), setError(null), setEthersProvider(null), setEthersSigner(null)
reinitialize ==
  /\ codec.pc = "fhevm"
  /\ Provider([codec EXCEPT !.status = "idle", !.error = FALSE, !.ethersSigner = FALSE])

NextFhevm ==
  \/ \E w \in WalletStates : walletChanged(w)
  \/ setupProvider
  \/ \E i \in 1..MaxRuns : getSignerReturned(i)
  \/ \E i \in 1..MaxRuns : setupProviderReady(i)
  \/ \E i \in 1..MaxRuns : setupProviderThrew(i)
  \/ reinitialize

SpecFhevm == InitFhevm /\ [][NextFhevm]_vars

\* ------------------------------------------------ the category of an existing note
\* JavaScript values, so that === is equality of the records
JsNumber(n) == [t |-> "number", n |-> n, s |-> ""]
JsString(str) == [t |-> "string", n |-> 0, s |-> str]
JsUndefined == [t |-> "undefined", n |-> 0, s |-> ""]

\* const targetBits = bits ?? (needs64 ? 64 : 32)
targetBits(bits, needs64) ==
  IF bits = JsUndefined THEN JsNumber(IF needs64 THEN 64 ELSE 32) ELSE bits

\* the builder call createEncryptedInput chooses: add64, add16, add8, else add32
AddWidth(bits, needs64) ==
  LET target == targetBits(bits, needs64)
  IN  IF target = JsNumber(64) THEN 64
      ELSE IF target = JsNumber(16) THEN 16
      ELSE IF target = JsNumber(8) THEN 8
      ELSE 32

\* the third argument of createEncryptedInput where the component encrypts a category
CategoryBits == IF variant = "A" THEN JsNumber(8) ELSE JsString("uint8")

\* createEncryptedInput(value, contractAddress, bits) for the notes contract, which is
\* none of the contracts that need 64 bits: one handle with its own proof
createEncryptedInput(user, value, bits) == Encrypted(user, <<(<<value>>)>>, AddWidth(bits, FALSE))

\* what can throw before the transaction is mined
SetCategoryFaults == {"none", "createEncryptedInput", "send"}

\* the category dropdown of an own, saved note, to the point where setNoteCategory has
\* been sent (or to the end of the handler where a call throws)
handleSetCategoryWith(s, fault, category) ==
  /\ Idle(s) /\ ~isNewNote[s] /\ selectedSharedNote[s] = NullRef /\ selectedNoteId[s] # NullId
  /\ variant = "B" => isDecrypted[s]
  /\ fault # "createEncryptedInput" => Cardinality(Inputs) < MaxInputs
  /\ fhe' = IF fault = "createEncryptedInput" THEN fhe
            ELSE createEncryptedInput(account[s], category, CategoryBits)
  /\ LET p == [NoPending EXCEPT !.fn = "handleSetCategory", !.noteId = selectedNoteId[s],
                                !.category = category, !.at = now,
                                !.h = IF fault = "createEncryptedInput" THEN NoHandle
                                      ELSE Len(fhe) + 1]
     IN  IF fault = "none"
         THEN /\ pending' = [pending EXCEPT ![s] = p]
              /\ calls' = [calls EXCEPT ![s] = {"createEncryptedInput"}]
              /\ UNCHANGED log
         ELSE /\ UNCHANGED pending
              /\ calls' = [calls EXCEPT ![s] = {"createEncryptedInput"}]
              /\ log' = [log EXCEPT ![s] = Report("category", p, fault)]
  /\ UNCHANGED <<chainVars, fheAcl, now, lastTx, ipfs, codec, variant, account, notes,
                 sharedNotes, selectedNoteId, selectedSharedNote, title, content, isNewNote,
                 isDecrypted, contentCache, keyCache>>

handleSetCategory(s) ==
  \E fault \in SetCategoryFaults, category \in Categories : handleSetCategoryWith(s, fault, category)

\* from tx.wait() on
handleSetCategoryMined(s) ==
  /\ pending[s].fn = "handleSetCategory"
  /\ LET p == pending[s]
         err == setNoteCategoryRevert(account[s], p.noteId, p.h)
     IN  /\ err = "" => now < MaxTime
         /\ Tx("setNoteCategory", account[s], err)
         /\ pending' = [pending EXCEPT ![s] = NoPending]
         /\ calls' = [calls EXCEPT ![s] = @ \cup {"setNoteCategory"}]
         /\ log' = [log EXCEPT ![s] = Report("category", p, err)]
         /\ IF err # "" THEN Reverted ELSE setNoteCategory(account[s], p.noteId, p.h)
  /\ UNCHANGED <<fhe, ipfs, codec, variant, account, notes, sharedNotes, selectedNoteId,
                 selectedSharedNote, title, content, isNewNote, isDecrypted, contentCache,
                 keyCache>>

NextCategory ==
  \/ \E s \in Sess : Refresh(s)
  \/ \E s \in Sess : selectNote(s)
  \/ \E s \in Sess : handleNewNote(s)
  \/ \E s \in Sess : handleSaveWith(s, "none", 0)
  \/ \E s \in Sess : handleSaveMined(s)
  \/ \E s \in Sess : handleSetCategory(s)
  \/ \E s \in Sess : handleSetCategoryMined(s)

SpecCategory == Init /\ [][NextCategory]_vars

\* ------------------------------------------------------ handlers run to their end
\* the operation of the handler a pending call belongs to
OpOf(fn) ==
  CASE fn \in {"createNote", "updateContent", "updateTitle", "setNoteCategory"} -> "save"
    [] fn = "shareNote" -> "share"
    [] fn = "deleteNote" -> "delete"
    [] OTHER -> "category"

\* without the finally block: the flag stays set
handlerThrewNoFinally(s) ==
  /\ pending[s].fn \notin {"none", "userDecrypt"}
  /\ log' = [log EXCEPT ![s] = Report(OpOf(pending[s].fn), pending[s], "threw")]
  /\ UNCHANGED <<chainVars, fheAcl, now, lastTx, fhe, ipfs, codec, variant, account, pending,
                 notes, sharedNotes, selectedNoteId, selectedSharedNote, title, content,
                 isNewNote, isDecrypted, contentCache, keyCache, calls>>

\* the sent transaction, or tx.wait(), is rejected: the catch block of the handler
\* reports it and the finally block clears the flag (a failing call of handleDecrypt
\* is an oracle refusal of handleDecryptCompleted)
handlerThrew(s) ==
  /\ pending[s].fn \notin {"none", "userDecrypt"}
  /\ pending' = [pending EXCEPT ![s] = NoPending]
  /\ log' = [log EXCEPT ![s] = Report(OpOf(pending[s].fn), pending[s], "threw")]
  /\ UNCHANGED <<chainVars, fheAcl, now, lastTx, fhe, ipfs, codec, variant, account, notes,
                 sharedNotes, selectedNoteId, selectedSharedNote, title, content, isNewNote,
                 isDecrypted, contentCache, keyCache, calls>>

\* the call that the handler running in window s awaits returns or throws (the oracle
\* call of handleDecrypt: throws, where it has not answered before)
Returns(s) ==
  \/ handleSaveMined(s)
  \/ handleSaveCategoryMined(s)
  \/ handleSaveTitleMined(s)
  \/ handleDecryptCompleted(s, Refusal)
  \/ handleShareMined(s)
  \/ handleDeleteMined(s)
  \/ handleSetCategoryMined(s)
  \/ handlerThrew(s)

\* one window in which the user saves, unlocks, shares, deletes and categorises notes
NextLive ==
  \/ \E s \in Authors : selectNote(s)
  \/ \E s \in Authors : handleNewNote(s)
  \/ \E s \in Authors, category \in Categories : handleSaveWith(s, "none", category)
  \/ \E s \in Authors : handleSaveMined(s)
  \/ \E s \in Authors : handleSaveCategoryMined(s)
  \/ \E s \in Authors : handleSaveTitleMined(s)
  \/ \E s \in Authors : handleDecryptSent(s)
  \/ \E s \in Authors, resp \in {Honest, Refusal} : handleDecryptCompleted(s, resp)
  \/ \E s \in Authors : handleShare(s)
  \/ \E s \in Authors : handleShareMined(s)
  \/ \E s \in Authors : handleDelete(s)
  \/ \E s \in Authors : handleDeleteMined(s)
  \/ \E s \in Authors, category \in Categories : handleSetCategoryWith(s, "none", category)
  \/ \E s \in Authors : handleSetCategoryMined(s)
  \/ \E s \in Authors : handlerThrew(s)

\* every external call eventually returns or throws
SpecLive == Init /\ [][NextLive]_vars /\ \A s \in Authors : WF_vars(Returns(s))

\* ================================================================== the codec
\* keys with at most MaxNonzero non-zero bytes, at the ends of the chunks, and the
\* dense keys the key generator gives
BytePositions == {1, 8, 9, 16, 17, 24, 25, 32}
ByteValues == {1, 128, 255}
SparseKeys ==
  {[j \in 1..KeyLen |-> IF j \in DOMAIN f THEN f[j] ELSE 0] :
     f \in UNION {[P -> ByteValues] : P \in {Q \in SUBSET BytePositions : Cardinality(Q) <= MaxNonzero}}}
CodecKeys == SparseKeys \cup {SampleKey(1), SampleKey(2)}

\* unsigned 64-bit values: 0, 1, 255, 256, 2^56, 0x0102030405060708, 2^64 - 1
ChunkValues ==
  {BigZero, <<1>>, <<255>>, <<1, 0>>, <<1, 0, 0, 0, 0, 0, 0, 0>>, <<1, 2, 3, 4, 5, 6, 7, 8>>,
   <<255, 255, 255, 255, 255, 255, 255, 255>>}
CodecChunks == [1..NumChunks -> ChunkValues]

InitCodec ==
  /\ ChainInit
  /\ fhe = << >>
  /\ variant = "A"
  /\ account = [s \in Sess |-> s]
  /\ ClientInit
  /\ \/ \E k \in CodecKeys : codec = [pc |-> "key", k0 |-> k, c0 |-> << >>, k |-> k, c |-> << >>]
     \/ \E c \in CodecChunks : codec = [pc |-> "chunks", k0 |-> << >>, c0 |-> c, k |-> << >>, c |-> c]

\* handleSave / handleShare: the key is split into four chunk values
Split ==
  /\ codec.pc \in {"key", "joined"}
  /\ codec' = [codec EXCEPT !.pc = IF @ = "key" THEN "split" ELSE "resplit", !.c = SplitKey(codec.k)]
  /\ UNCHANGED <<chainVars, fheAcl, now, lastTx, fhe, ipfs, clientVars>>

\* handleDecrypt: the key is rebuilt from four chunk values
Join ==
  /\ codec.pc \in {"chunks", "split"}
  /\ codec' = [codec EXCEPT !.pc = IF @ = "chunks" THEN "joined" ELSE "rejoined",
                            !.k = JoinChunks(codec.c)]
  /\ UNCHANGED <<chainVars, fheAcl, now, lastTx, fhe, ipfs, clientVars>>

NextCodec == Split \/ Join

SpecCodec == InitCodec /\ [][NextCodec]_vars

\* ========================================================== oracle responses
\* what relayer.userDecrypt may resolve to, as extractDecryptedNumber tells the shapes
\* apart: an object with a clearValues map, an object keyed by handle, an array, a
\* bigint / number / string, or nothing. A result is [shape, entries]; an entry is
\* [handle, val] (handle 0 where the shape has no keys) and a val is [t, v] with t its
\* JavaScript type and v its digits: base 256 for a bigint, decimal for a string, the
\* number itself for a number
Undefined == [t |-> "undefined", v |-> << >>]

RECURSIVE FromInt(_)
\* the BigInt of a non-negative integer
FromInt(n) == IF n = 0 THEN BigZero ELSE Append(FromInt(n \div 256), n % 256)

RECURSIVE Decimal(_)
\* String(n)
Decimal(n) == IF n < 10 THEN <<n>> ELSE Append(Decimal(n \div 10), n % 10)

RECURSIVE ParseDecimal(_)
ParseDecimal(digits) ==
  IF digits = << >> THEN 0
  ELSE 10 * ParseDecimal(SubSeq(digits, 1, Len(digits) - 1)) + digits[Len(digits)]

\* typeof val === 'bigint' ? val : typeof val === 'string' ? BigInt(val)
\*                                                        : BigInt(Math.round(val))
BigIntOf(val) ==
  IF val.t = "bigint" THEN val.v
  ELSE IF val.t = "string" THEN FromInt(ParseDecimal(val.v))
  ELSE FromInt(val.v[1])

\* the value n as the oracle sends it in JavaScript type t
Encode(n, t) ==
  [t |-> t, v |-> IF t = "bigint" THEN FromInt(n) ELSE IF t = "string" THEN Decimal(n) ELSE <<n>>]

\* object[handle]
Lookup(entries, handle) ==
  IF \E i \in DOMAIN entries : entries[i].handle = handle
  THEN entries[CHOOSE i \in DOMAIN entries : entries[i].handle = handle].val
  ELSE Undefined

\* !result: null and undefined, and the scalars 0, 0n and ""
FalsyResult(result) ==
  \/ result.shape = "null"
  \/ /\ result.shape = "scalar"
     /\ result.entries[1].val \in {Encode(0, "bigint"), Encode(0, "number"),
                                   [t |-> "string", v |-> << >>]}

extractDecryptedNumber(result, handle) ==
  IF FalsyResult(result) THEN Null
  ELSE LET val == IF result.shape = "clearValues" THEN Lookup(result.entries, handle)
                  ELSE IF result.shape = "keyed" /\ Lookup(result.entries, handle) # Undefined
                  THEN Lookup(result.entries, handle)
                  ELSE IF result.shape = "array" /\ Len(result.entries) > 0
                  THEN result.entries[1].val
                  ELSE IF result.shape = "scalar" THEN result.entries[1].val
                  ELSE Undefined
       IN  IF val = Undefined THEN Null ELSE BigIntOf(val)

\* decryptPairs.map(pair => extractDecryptedNumber(result, pair.handle))
DecryptedValues(result, handles) ==
  [i \in DOMAIN handles |-> extractDecryptedNumber(result, handles[i])]

\* the requests: four handles in some order, or with one handle twice
HandleTuples == {<<1, 2, 3, 4>>, <<4, 3, 2, 1>>, <<2, 4, 1, 3>>, <<1, 1, 2, 3>>}
\* the cleartext the oracle holds for a handle: one byte, two bytes, zero, 2^16 - 1
ClearOf(h) == IF h = 1 THEN 7 ELSE IF h = 2 THEN 256 ELSE IF h = 3 THEN 0 ELSE 65535
ValueTypes == {"bigint", "string", "number"}
\* the handles a keyed response has entries for
AnsweredSets == {{}, {1}, {1, 2, 4}, {1, 2, 3, 4}}
\* the entries of a keyed response on the handles of S, in every order
Orders(S) ==
  {p \in [1..Cardinality(S) -> S] : \A i, j \in DOMAIN p : p[i] = p[j] => i = j}

\* a response together with the cleartexts it carries for the four handles of hs
KeyedResponses(hs, t) ==
  UNION {{[result |-> [shape |-> sh,
                       entries |-> [i \in DOMAIN p |->
                                      [handle |-> p[i], val |-> Encode(ClearOf(p[i]), t)]]],
           clear |-> [i \in DOMAIN hs |-> IF hs[i] \in S THEN FromInt(ClearOf(hs[i])) ELSE Null]] :
            sh \in {"clearValues", "keyed"}, p \in Orders(S)} : S \in AnsweredSets}

ArrayResponses(hs, t) ==
  {[result |-> [shape |-> "array",
                entries |-> [i \in DOMAIN hs |-> [handle |-> 0, val |-> Encode(ClearOf(hs[i]), t)]]],
    clear |-> [i \in DOMAIN hs |-> FromInt(ClearOf(hs[i]))]]}

\* a scalar carries one cleartext; it answers a request whose handles all have it
ScalarResponses(hs, t) ==
  {[result |-> [shape |-> "scalar", entries |-> <<[handle |-> 0, val |-> Encode(n, t)]>>],
    clear |-> [i \in DOMAIN hs |-> FromInt(n)]] : n \in {0, 7, 256}}

NullResponses(hs) ==
  {[result |-> [shape |-> "null", entries |-> << >>], clear |-> [i \in DOMAIN hs |-> Null]]}

InitOracle ==
  /\ ChainInit
  /\ fhe = << >>
  /\ variant = "A"
  /\ account = [s \in Sess |-> s]
  /\ ClientInit
  /\ \E hs \in HandleTuples, t \in ValueTypes :
       \E r \in KeyedResponses(hs, t) \cup ArrayResponses(hs, t) \cup ScalarResponses(hs, t)
                 \cup NullResponses(hs) :
         codec = [pc |-> "response", handles |-> hs, result |-> r.result, clear |-> r.clear,
                  out |-> << >>]

\* requestDecryption4x64 from the resolved userDecrypt on
Extract ==
  /\ codec.pc = "response"
  /\ codec' = [codec EXCEPT !.pc = "extracted",
                            !.out = DecryptedValues(codec.result, codec.handles)]
  /\ UNCHANGED <<chainVars, fheAcl, now, lastTx, fhe, ipfs, clientVars>>

NextOracle == Extract

SpecOracle == InitOracle /\ [][NextOracle]_vars

\* C7: for every 32-byte key k, splitting k at offsets 0, 8, 16, 24 and writing the four
\* chunks back at those offsets gives exactly k: join(split(k)) = k
C7_JoinSplit == codec.pc = "rejoined" => codec.k = codec.k0

\* a key with bytes in every chunk, the lowest-order byte of a chunk included, has been
\* split and joined again
C7_Witness ==
  /\ codec.pc = "rejoined"
  /\ codec.k0[8] # 0 /\ codec.k0[9] # 0
  /\ codec.c[1] # BigZero /\ codec.c[2] # BigZero

\* C8: for every 4-tuple c of unsigned 64-bit values, joining the chunks into 32 bytes and
\* splitting the result gives the same four values in the same positions: split(join(c)) = c
C8_SplitJoin == codec.pc = "resplit" => codec.c = codec.c0

\* a tuple holding 2^64 - 1 and a zero chunk, with different values in different positions,
\* has been joined and split again
C8_Witness ==
  /\ codec.pc = "resplit"
  /\ codec.c0[1] = <<255, 255, 255, 255, 255, 255, 255, 255>>
  /\ codec.c0[2] = BigZero
  /\ codec.c0[3] = <<1, 0>>
  /\ codec.c0[4] = <<1, 2, 3, 4, 5, 6, 7, 8>>

\* ====================================================== properties of the store
\* the records address o owns: its notes, its category handles, the grants it made and
\* the reverse-index entries that name it as the owner
RecordsOf(o) ==
  [notes |-> userNotes[o],
   count |-> noteCount[o],
   grants |-> [t \in {u \in DOMAIN sharedNoteKeys : u[1] = o} |-> sharedNoteKeys[t]],
   lists |-> [t \in {u \in DOMAIN sharedWithList : u[1] = o} |-> sharedWithList[t]],
   categories |-> [t \in {u \in DOMAIN noteCategories : u[1] = o} |-> noteCategories[t]],
   refs |-> [g \in Addr |-> SelectSeq(receivedNotes[g], LAMBDA r : r.owner = o)]]

\* how often x occurs in a list
Count(list, x) == Cardinality({i \in DOMAIN list : list[i] = x})

\* C2 (as amended): while a grant (r, owner, g) is active, every shareNote(r, g) by the
\* owner is rejected - with 'Already shared', or with 'Deleted' when the note is
\* soft-deleted - and no step overwrites the stored handles or adds g to the grantee
\* list or (owner, r) to g's received list: the handles stay or are cleared by a revoke
C2_RejectedWhileActive ==
  /\ [](\A o \in Addr, g \in Addr, n \in 0..(MaxNotes - 1) :
          Active(o, n, g) =>
            \A hs \in Batches(o, 64) :
              shareNoteRevert(o, n, g, hs) =
                IF NoteAt(o, n).isDeleted THEN "Deleted" ELSE "Already shared")
  /\ [][\A o \in Addr, g \in Addr, n \in 0..(MaxNotes - 1) :
          Active(o, n, g) =>
            /\ Shared(o, n, g)' \in {Shared(o, n, g), NoHandles}
            /\ Count(sharedWithList[<<o, n>>], g)' = Count(sharedWithList[<<o, n>>], g)
            /\ Count(receivedNotes[g], [owner |-> o, noteId |-> n])'
                 = Count(receivedNotes[g], [owner |-> o, noteId |-> n])]_vars

\* a shareNote for a triple with an active grant has just been rejected with
\* 'Already shared', with handles the owner encrypted
C2_Witness ==
  /\ lastTx = [fn |-> "shareNote", sender |-> 1, err |-> "Already shared"]
  /\ Active(1, 0, 2)
  /\ ~NoteAt(1, 0).isDeleted

\* C2 as stated: with an active grant, shareNote is rejected with 'Already shared'
C2_AlreadyShared ==
  \A o \in Addr, g \in Addr, n \in 0..(MaxNotes - 1) :
    Active(o, n, g) =>
      \A hs \in Batches(o, 64) : shareNoteRevert(o, n, g, hs) = "Already shared"

\* C4: a step changes the records an address owns only when it is a mined transaction
\* sent by that address: no other caller, a grantee with an active grant included,
\* changes an owner's notes, categories or grants
C4_OnlyOwnRecords ==
  [][\A o \in Addr :
       RecordsOf(o)' # RecordsOf(o) => lastTx'.sender = o /\ lastTx'.err = "" /\ now' = now + 1]_vars

\* a grantee with an active grant has just had a transaction naming the owner's note id
\* rejected
C4_Witness ==
  /\ Active(1, 0, 2)
  /\ lastTx.sender = 2 /\ lastTx.err # ""
  /\ lastTx.fn \in {"updateTitle", "updateContent", "deleteNote", "unshareNote", "setNoteCategory"}

\* C11: unshareNote(n, g) by the owner of an existing note n for which no grant to g is
\* active - never shared, or revoked - reverts with 'Not shared'; a reverted unshareNote
\* changes nothing in the store; and right after a mined unshareNote(n, g) the same
\* call reverts with 'Not shared'
C11_NotSharedRejected ==
  /\ [](\A o \in Addr, g \in Addr \cup {ZeroAddr}, n \in 0..(MaxNotes - 1) :
          Exists(o, n) /\ ~Active(o, n, g) => unshareNoteRevert(o, n, g) = "Not shared")
  /\ [][lastTx'.fn = "unshareNote" /\ lastTx'.err # ""
          => UNCHANGED <<chainVars, fheAcl, now>>]_vars
  /\ [][\A o \in Addr, g \in Addr, n \in 0..(MaxNotes - 1) :
          Active(o, n, g) /\ ~Active(o, n, g)'
            => /\ lastTx' = [fn |-> "unshareNote", sender |-> o, err |-> ""]
               /\ unshareNoteRevert(o, n, g)' = "Not shared"]_vars

\* account 1 has one note, shared it with account 2 and revoked the grant, and an
\* unshareNote of account 1 has then been rejected with 'Not shared'
C11_Witness ==
  /\ lastTx = [fn |-> "unshareNote", sender |-> 1, err |-> "Not shared"]
  /\ Len(userNotes[1]) = 1
  /\ Count(sharedWithList[<<1, 0>>], 2) = 1 /\ ~Active(1, 0, 2)

\* C13: a step that sets a note's deleted flag keeps the note in the array with its
\* key handles and locator, keeps every grant made for it and the permissions on the
\* handles; and for a deleted note with an active grant the grantee's
\* getSharedNoteKeyChunks and getSharedNoteCID succeed and return the grant's handles
\* and the note's locator
C13_DeleteKeepsGrants ==
  /\ [][\A o \in Addr, n \in 0..(MaxNotes - 1) :
          (Exists(o, n) /\ ~NoteAt(o, n).isDeleted /\ (NoteAt(o, n)').isDeleted)
            => /\ lastTx' = [fn |-> "deleteNote", sender |-> o, err |-> ""]
               /\ (NoteAt(o, n)').keyChunks = NoteAt(o, n).keyChunks
               /\ (NoteAt(o, n)').ipfsCid = NoteAt(o, n).ipfsCid
               /\ Len(userNotes[o])' = Len(userNotes[o])
               /\ fheAcl' = fheAcl
               /\ \A g \in Addr : Shared(o, n, g)' = Shared(o, n, g)]_vars
  /\ [](\A o \in Addr, g \in Addr, n \in 0..(MaxNotes - 1) :
          (Exists(o, n) /\ NoteAt(o, n).isDeleted /\ Active(o, n, g))
            => /\ getSharedNoteKeyChunks(g, o, n) = [err |-> "", ret |-> Shared(o, n, g)]
               /\ getSharedNoteCID(g, o, n) = [err |-> "", ret |-> NoteAt(o, n).ipfsCid])

\* account 1 has just deleted its note 0, which it had shared with account 2
C13_Witness ==
  /\ lastTx = [fn |-> "deleteNote", sender |-> 1, err |-> ""]
  /\ Exists(1, 0) /\ NoteAt(1, 0).isDeleted
  /\ Active(1, 0, 2)

\* C14: every stored note's id is its index in the owner's array; the array never
\* shrinks and grows by one note at a time, only by a mined createNote of the owner,
\* whose note gets the next index as id; the notes already stored keep their ids and
\* places; and a step that clears a deleted flag is a mined restoreNote that adds no note
IdsOf(o) == [i \in DOMAIN userNotes[o] |-> userNotes[o][i].id]

C14_IdsNeverReused ==
  /\ [](\A o \in Addr : IdsOf(o) = [i \in 1..Len(userNotes[o]) |-> i - 1])
  /\ [][\A o \in Addr :
          LET before == Len(userNotes[o])
          IN  /\ Len(userNotes[o])' \in {before, before + 1}
              /\ SubSeq(IdsOf(o)', 1, before) = IdsOf(o)
              /\ Len(userNotes[o])' = before + 1
                   => /\ lastTx' = [fn |-> "createNote", sender |-> o, err |-> ""]
                      /\ IdsOf(o)'[before + 1] = before
              /\ \A n \in 0..(before - 1) :
                   (NoteAt(o, n).isDeleted /\ ~(NoteAt(o, n)').isDeleted)
                     => /\ lastTx' = [fn |-> "restoreNote", sender |-> o, err |-> ""]
                        /\ Len(userNotes[o])' = before
                        /\ (NoteAt(o, n)').id = n]_vars

\* account 1 has created a note, deleted it, and has just created another one
C14_Witness ==
  /\ lastTx = [fn |-> "createNote", sender |-> 1, err |-> ""]
  /\ Len(userNotes[1]) = 2
  /\ NoteAt(1, 0).isDeleted

\* ================================================ properties of the application
\* the cleartexts escrowed under four handles
KeyOf(hs) == [j \in DOMAIN hs |-> fhe[hs[j]].val]
\* the blob a note's locator addresses
Stored(o, n) == downloadFromIPFS(HexToText(BytesToHex(NoteAt(o, n).ipfsCid))).ret
\* session s has a note shared by o selected, or an own note
SharedSelected(s) == selectedSharedNote[s] # NullRef
OwnSelected(s) == selectedSharedNote[s] = NullRef /\ selectedNoteId[s] # NullId
\* the three shared reads of g for (o, n)
SharedReads(g, o, n) ==
  {getSharedNoteKeyChunks(g, o, n).err, getSharedNoteCID(g, o, n).err,
   getSharedNoteMetadata(g, o, n).err}

\* C1: a mined unshareNote(r, g) leaves every shared read of g for (owner, r) failing
\* with 'No access'; only a shareNote mined for the owner makes a grant active again;
\* and a Decrypt by g of a shared note whose grant is not active fails with 'No access'
\* without a request to the oracle
C1_RevokedNoAccess ==
  /\ [](\A o \in Addr, g \in Addr, n \in 0..(MaxNotes - 1) :
          ~Active(o, n, g) => SharedReads(g, o, n) = {"No access"})
  /\ [][/\ \A o \in Addr, g \in Addr, n \in 0..(MaxNotes - 1) :
             /\ (/\ lastTx' = [fn |-> "unshareNote", sender |-> o, err |-> ""]
                 /\ now' = now + 1
                 /\ unshareNoteRevert(o, n, g) = ""
                 /\ unshareNote(o, n, g))
                  => (SharedReads(g, o, n) = {"No access"})'
             /\ (~Active(o, n, g) /\ Active(o, n, g)')
                  => lastTx' = [fn |-> "shareNote", sender |-> o, err |-> ""]
        /\ \A s \in Sess :
             (/\ SharedSelected(s)
              /\ log'[s].op = "decrypt"
              /\ ~Active(selectedSharedNote[s].owner, selectedSharedNote[s].noteId, account[s])
              /\ handleDecrypt(s))
               => /\ log'[s].out = "No access"
                  /\ "userDecrypt" \notin calls'[s]
                  /\ ~isDecrypted'[s]]_vars

\* the owner has revoked the grant of note 0 to account 2, and the Decrypt that account 2
\* then attempted on the shared note failed with 'No access'
C1_Witness ==
  /\ lastTx = [fn |-> "unshareNote", sender |-> 1, err |-> ""]
  /\ ~Active(1, 0, 2)
  /\ selectedSharedNote[2] # NullRef /\ selectedSharedNote[2].owner = 1
  /\ log[2].op = "decrypt" /\ log[2].out = "No access" /\ log[2].at = now
  /\ calls[2] = {"getSharedNoteCID"}

\* C6: a committed save stores a locator to the blob that seals the content the editor
\* held, and an owner Decrypt in which the oracle returns the escrowed chunk values ends
\* unlocked showing that content, with the key joined from the chunks equal to the key
\* generated at save
C6_OwnerRecovers ==
  [][\A s \in Sess :
       /\ (now' = now + 1 /\ pending[s].fn \in {"createNote", "updateContent"} /\ handleSaveMined(s))
            => \A n \in NoteIds :
                 n = log'[s].noteId =>
                   /\ Stored(account[s], n)'.pt = pending[s].pt
                   /\ Stored(account[s], n)'.key = pending[s].keyBytes
                   /\ pending[s].pt = content[s]
       /\ (OwnSelected(s) /\ log'[s].op = "decrypt" /\ handleDecryptOn(s, Honest))
            => /\ isDecrypted'[s]
               /\ log'[s].out = ""
               /\ content'[s] = Stored(account[s], selectedNoteId[s]).pt
               /\ keyCache'[s][MyKey(selectedNoteId[s])] = Stored(account[s], selectedNoteId[s]).key]_vars

\* the owner saved a note with content "v1" and then decrypted it: the editor is unlocked
\* and shows "v1"
C6_Witness ==
  /\ log[1].op = "decrypt" /\ log[1].out = "" /\ OwnSelected(1)
  /\ isDecrypted[1] /\ content[1] = "v1"
  /\ Stored(1, selectedNoteId[1]).pt = "v1"

Outdated(o, n, g) == Active(o, n, g) /\ Shared(o, n, g)[1] < NoteAt(o, n).keyChunks[1]

\* C9: when a grant was made before the note's last content update, the grantee's
\* Decrypt fails and stays locked whatever the oracle answers, and when the oracle
\* returns the escrowed values it downloads the new payload and fails in the cipher:
\* the escrowed key is not the key that seals the payload
C9_OldGrantFails ==
  [][\A s \in Sess, resp \in OracleResponses :
       (/\ SharedSelected(s)
        /\ log'[s].op = "decrypt"
        /\ Outdated(selectedSharedNote[s].owner, selectedSharedNote[s].noteId, account[s])
        /\ handleDecryptOn(s, resp))
         => /\ ~isDecrypted'[s]
            /\ content'[s] = FailedText
            /\ contentCache'[s] = contentCache[s]
            /\ resp = Honest =>
                 /\ log'[s].out = "OperationError"
                 /\ "aesDecrypt" \in calls'[s]
                 /\ JoinChunks(KeyOf(Shared(selectedSharedNote[s].owner,
                                            selectedSharedNote[s].noteId, account[s])))
                      # Stored(selectedSharedNote[s].owner, selectedSharedNote[s].noteId).key]_vars

\* the owner shared note 0 with account 2 and then saved new content; account 2's
\* Decrypt of the shared note has just failed in the cipher
C9_Witness ==
  /\ Outdated(1, 0, 2)
  /\ Stored(1, 0).pt = "v2"
  /\ SharedSelected(2) /\ selectedSharedNote[2].noteId = 0
  /\ log[2].op = "decrypt" /\ log[2].out = "OperationError"
  /\ ~isDecrypted[2] /\ content[2] = FailedText

\* C5: for every note of the owner, the first included, and every other account X: a
\* Share to X of the unlocked note whose current key is in the key cache sends the
\* shareNote transaction; when it is mined for a triple with no active grant it commits a
\* grant for X that escrows the cached key; and X's Decrypt, with the oracle returning the
\* escrowed values, ends unlocked showing the owner's content
C5_ShareThenDecrypt ==
  [][\A s \in Sess :
       /\ \A X \in Addr \ {account[s]} :
            (/\ OwnSelected(s)
             /\ MyKey(selectedNoteId[s]) \in DOMAIN keyCache[s]
             /\ log' # log \/ pending' # pending
             /\ handleShareTo(s, X))
              => /\ pending'[s].fn = "shareNote"
                 /\ pending'[s].noteId = selectedNoteId[s]
                 /\ pending'[s].recipient = X
       /\ (/\ pending[s].fn = "shareNote"
           /\ now' = now + 1
           /\ handleShareMined(s))
            => \A p \in {pending[s]}, a \in {account[s]} :
                 /\ Shared(a, p.noteId, p.recipient)' = p.hs
                 /\ JoinChunks(KeyOf(p.hs)) = keyCache[s][MyKey(p.noteId)]
                 /\ Permitted(p.recipient, p.hs)'
       /\ (/\ SharedSelected(s)
           /\ log'[s].op = "decrypt"
           /\ Active(selectedSharedNote[s].owner, selectedSharedNote[s].noteId, account[s])
           /\ ~Outdated(selectedSharedNote[s].owner, selectedSharedNote[s].noteId, account[s])
           /\ JoinChunks(KeyOf(Shared(selectedSharedNote[s].owner,
                                      selectedSharedNote[s].noteId, account[s])))
                = Stored(selectedSharedNote[s].owner, selectedSharedNote[s].noteId).key
           /\ handleDecryptOn(s, Honest))
            => /\ isDecrypted'[s]
               /\ content'[s] = Stored(selectedSharedNote[s].owner, selectedSharedNote[s].noteId).pt]_vars

\* the owner's first note is unlocked with its key in the cache, and the Share to
\* account 2 has returned without encrypting or sending anything
C5_Witness ==
  /\ variant = "A"
  /\ OwnSelected(1) /\ selectedNoteId[1] = 0 /\ isDecrypted[1]
  /\ MyKey(0) \in DOMAIN keyCache[1]
  /\ log[1].op = "share" /\ log[1].out = "returned"
  /\ calls[1] = {} /\ pending[1] = NoPending
  /\ ~Active(1, 0, 2)

\* ------------------------------------------------------------- SpecRace
\* both sessions have finished a shareNote(n, g) transaction that they sent while the
\* store held no grant for (n, g)
BothShared(n, g) ==
  \A s \in Sess : /\ log[s].op = "share" /\ log[s].unshared
                   /\ log[s].noteId = n /\ log[s].recipient = g

\* C3: when two sessions of the owner each send shareNote(n, g) while the pair is not
\* yet shared, then in whichever order the two transactions are mined exactly one is
\* mined and the other reverts with 'Already shared', and the store ends with one grant
\* for (n, owner, g): the handles are set and g is listed once in the note's
\* shared-with list and the note once in g's received list
C3_OneShareWins ==
  \A n \in 0..(MaxNotes - 1), g \in Addr \ {Owner} :
    LET listed == Count(sharedWithList[<<Owner, n>>], g)
        received == Count(receivedNotes[g], [owner |-> Owner, noteId |-> n])
    IN  /\ listed = (IF Active(Owner, n, g) THEN 1 ELSE 0)
        /\ received = listed
        /\ BothShared(n, g)
           => /\ Active(Owner, n, g)
              /\ \E s \in Sess : /\ log[s].out = ""
                                 /\ \A o \in Sess \ {s} : log[o].out = "Already shared"

C3_Witness ==
  \E n \in 0..(MaxNotes - 1), g \in Addr \ {Owner} :
    /\ BothShared(n, g)
    /\ lastTx.fn = "shareNote" /\ lastTx.err = "Already shared"
\* --------------------------------------------------------------- C12
\* the grantees that are invalid for session s: its own account and a text that is no
\* address (client), the sender and the zero address (store)
InvalidTyped(s) == {account[s], Malformed}

\* C12: a Share by the owner with the own account or a malformed text as grantee ends
\* with the client's invalid-grantee message, before any encryption or transaction and
\* with ledger and caches unchanged; the store rejects every shareNote whose recipient
\* is the sender or the zero address (with 'Cannot share with self' / 'Invalid
\* recipient' for a note that exists and is not deleted); and no grant, grantee-list
\* entry or received-list entry ever names an owner or the zero address as grantee
C12_InvalidGranteeRejected ==
  /\ [][\A s \in Sess : \A g \in InvalidTyped(s) :
          (log'[s].op = "share" /\ handleShareTo(s, g))
            => /\ log'[s].out = (IF g = Malformed THEN "Invalid Ethereum address"
                                  ELSE "Cannot share with yourself")
               /\ calls'[s] = {}
               /\ UNCHANGED <<chainVars, fheAcl, fhe, now, lastTx, pending, contentCache,
                              keyCache>>]_vars
  /\ [](\A o \in Addr, n \in NoteIds : \A hs \in Batches(o, 64) :
          /\ shareNoteRevert(o, n, o, hs) # "" /\ shareNoteRevert(o, n, ZeroAddr, hs) # ""
          /\ Exists(o, n) /\ ~NoteAt(o, n).isDeleted
             => /\ shareNoteRevert(o, n, o, hs) = "Cannot share with self"
                /\ shareNoteRevert(o, n, ZeroAddr, hs) = "Invalid recipient")
  /\ [](\A o \in Addr, n \in 0..(MaxNotes - 1) :
          /\ ~Active(o, n, o) /\ ~Active(o, n, ZeroAddr)
          /\ Count(sharedWithList[<<o, n>>], o) = 0
          /\ Count(sharedWithList[<<o, n>>], ZeroAddr) = 0
          /\ Count(receivedNotes[o], [owner |-> o, noteId |-> n]) = 0)

\* the client has turned down a malformed text typed as grantee, and the store a
\* shareNote to the zero address
C12_Witness ==
  /\ \E s \in Sess : log[s].op = "share" /\ log[s].out = "Invalid Ethereum address"
  /\ lastTx.fn = "shareNote" /\ lastTx.err = "Invalid recipient"
\* --------------------------------------------------------------- C15
\* the owner's notes as the ledger held them when session s started the save it is in
PriorOf(s) == IF Idle(s) THEN userNotes[account[s]] ELSE pending[s].prior

\* C15: when a save ends with a failure report, the owner's notes on the ledger are
\* what they were when the save was started and the step writes no cache entry; when it
\* ends with a success report the ledger holds the complete new version: for a content
\* save the note (one more than before for a new note) has the title and the locator of
\* the blob that decrypts to the saved content under the saved key, and its handles
\* escrow that key; for a title save the note has the new title
C15_FailedSaveLeavesNothing ==
  [][\A s \in Sess : \A p \in {pending[s]}, before \in {PriorOf(s)}, a \in {account[s]} :
       (log'[s] # log[s] /\ log'[s].op = "save" /\ log'[s].out # "Enter a title")
         => IF log'[s].out # ""
            THEN /\ userNotes'[a] = before
                 /\ contentCache'[s] = contentCache[s]
                 /\ keyCache'[s] = keyCache[s]
            ELSE \A n \in {log'[s].noteId} :
                   /\ Len(userNotes'[a]) = Len(before) + (IF p.fn \in {"createNote", "setNoteCategory"}
                                                           THEN 1 ELSE 0)
                   /\ Exists(a, n)'
                   /\ (NoteAt(a, n).title)' = p.title
                   /\ p.fn # "updateTitle"
                        => /\ (NoteAt(a, n).ipfsCid)' = p.cid
                           /\ (NoteAt(a, n).keyChunks)' = p.hs
                           /\ JoinChunks(KeyOf(p.hs)) = p.keyBytes
                           /\ \A j \in DOMAIN p.hs : fhe'[p.hs[j]] = fhe[p.hs[j]]
                           /\ (Stored(a, n))' = aesEncrypt(p.pt, p.keyBytes)]_vars

\* a save of a first note has failed at the encryption of the key chunks, after the
\* blob was uploaded, and the ledger holds no note
C15_Witness ==
  /\ log[1].op = "save" /\ log[1].out = "createEncryptedInput4x64"
  /\ Len(ipfs) = 1
  /\ userNotes[1] = << >>

ShowsUnlocked(s) ==
  /\ selectedNoteId[s] # NullId /\ selectedSharedNote[s] = NullRef
  /\ ~isNewNote[s] /\ isDecrypted[s]

\* the cache entries of note n in session s are those a Decrypt of the stored version
\* of the note leaves
FromDecrypt(s, n) ==
  /\ MyKey(n) \in DOMAIN keyCache[s] /\ MyKey(n) \in DOMAIN contentCache[s]
  /\ Exists(account[s], n)
  /\ aesDecrypt(Stored(account[s], n), keyCache[s][MyKey(n)])
       = [err |-> "", ret |-> contentCache[s][MyKey(n)]]

\* C17: a successful content save (create or update) leaves the note locked, its
\* plaintext replaced by the placeholder; and a note comes to be displayed unlocked only
\* by a successful Decrypt that asked the oracle, or by selecting a note whose cache
\* entries come from a Decrypt of the version now stored, so that after a save no
\* selection brings the plaintext back
C17_SaveLocks ==
  [][\A s \in Sess : \A p \in {pending[s]} :
       /\ (/\ log'[s] # log[s] /\ log'[s].op = "save" /\ log'[s].out = ""
           /\ p.fn \in {"createNote", "updateContent", "setNoteCategory"})
            => ~isDecrypted'[s] /\ content'[s] = LockedText
       /\ (/\ isDecrypted'[s] /\ ~isNewNote'[s]
           /\ selectedNoteId'[s] # NullId /\ selectedSharedNote'[s] = NullRef
           /\ ~ShowsUnlocked(s) \/ selectedNoteId'[s] # selectedNoteId[s])
            => \/ /\ log'[s].op = "decrypt" /\ log'[s].out = ""
                  /\ "userDecrypt" \in calls'[s]
               \/ \E n \in {selectedNoteId'[s]} : FromDecrypt(s, n)]_vars

\* the component that locks after a save has saved the content of a note and shows the
\* placeholder, with the plaintext in its content cache
C17_Witness ==
  \E s \in Sess :
    /\ variant = "A"
    /\ log[s].op = "save" /\ log[s].out = "" /\ "createNote" \in calls[s]
    /\ ~isDecrypted[s] /\ content[s] = LockedText
    /\ Truthy(contentCache[s], MyKey(selectedNoteId[s]))

\* C18: when the account of a session changes, the session's content cache and key
\* cache are empty afterwards
C18_SessionEndClears ==
  [][\A s \in Sess :
       account'[s] # account[s]
         => contentCache'[s] = << >> /\ keyCache'[s] = << >>]_vars

\* both accounts own a note 0; the window, now on account 2, shows note 0 unlocked with
\* the plaintext of account 1's note 0, which is not what account 2's note 0 holds,
\* and holds account 1's key for it
C18_Witness ==
  \E s \in Sess :
    /\ account[s] = 2 /\ ShowsUnlocked(s) /\ selectedNoteId[s] = 0
    /\ Exists(1, 0) /\ Exists(2, 0)
    /\ content[s] = Stored(1, 0).pt /\ content[s] # Stored(2, 0).pt
    /\ MyKey(0) \in DOMAIN keyCache[s]
    /\ keyCache[s][MyKey(0)] = Stored(1, 0).key

\* C19: a Share goes on to encrypt the key chunks, and so to the shareNote transaction,
\* only when the session shows the own note unlocked and its key cache holds a key for
\* the note; a Share that returns instead makes no encryption request, sends no
\* transaction, and changes nothing on the ledger or in the caches
C19_ShareNeedsUnlockedKey ==
  [][\A s \in Sess : \A n \in {selectedNoteId[s]} :
       /\ (pending[s].fn = "none" /\ pending'[s].fn = "shareNote")
            => /\ ShowsUnlocked(s)
               /\ MyKey(n) \in DOMAIN keyCache[s]
               /\ pending'[s].noteId = n
               /\ "createEncryptedInput4x64" \in calls'[s]
       /\ (pending[s].fn = "none" /\ log'[s] # log[s] /\ log'[s].op = "share")
            => /\ fhe' = fhe /\ fheAcl' = fheAcl
               /\ lastTx' = lastTx /\ chainVars' = chainVars
               /\ pending'[s].fn = "none" /\ calls'[s] = {}
               /\ contentCache' = contentCache /\ keyCache' = keyCache]_vars

\* the note is shown unlocked from the content cache after a save, the key cache has no
\* key for it, and the Share returned with the message about the missing key
C19_Witness ==
  \E s \in Sess :
    /\ log[s].op = "share" /\ log[s].out = "Key not found in cache"
    /\ ShowsUnlocked(s)
    /\ MyKey(selectedNoteId[s]) \notin DOMAIN keyCache[s]
    /\ calls[s] = {} /\ Idle(s)

\* C20: for every response shape, entry order and value type, requestDecryption4x64
\* returns four elements, the i-th being the cleartext the response carries for
\* handles[i], and null where the response carries none
C20_PositionalCleartexts ==
  codec.pc = "extracted"
    => /\ Len(codec.out) = NumChunks
       /\ \A i \in 1..NumChunks : codec.out[i] = codec.clear[i]

\* an array response with four different cleartexts has been extracted
C20_Witness ==
  /\ codec.pc = "extracted"
  /\ codec.result.shape = "array"
  /\ codec.handles = <<4, 3, 2, 1>>
  /\ codec.clear[1] # codec.clear[2]
  /\ Len(codec.out) = NumChunks

\* C21: in every state each stored grant has its four handles all set or all cleared,
\* and each note has its four own key handles set; so the first handle alone tells
\* whether a grant is active
C21_NoPartialCapability ==
  /\ \A o \in Addr, g \in Addr \cup {ZeroAddr}, n \in 0..(MaxNotes - 1) :
       /\ \/ \A j \in 1..NumChunks : Shared(o, n, g)[j] # NoHandle
          \/ \A j \in 1..NumChunks : Shared(o, n, g)[j] = NoHandle
       /\ Active(o, n, g) <=> \A j \in 1..NumChunks : Shared(o, n, g)[j] \in DOMAIN fhe
  /\ \A o \in Addr : \A i \in DOMAIN userNotes[o] :
       \A j \in 1..NumChunks : userNotes[o][i].keyChunks[j] \in DOMAIN fhe

\* a grant that was active has been revoked: the reverse index still holds its entry
\* and its four handles are cleared
C21_Witness ==
  \E o \in Addr, g \in Addr, n \in 0..(MaxNotes - 1) :
    /\ Exists(o, n)
    /\ lastTx = [fn |-> "unshareNote", sender |-> o, err |-> ""]
    /\ \E i \in DOMAIN receivedNotes[g] : receivedNotes[g][i] = [owner |-> o, noteId |-> n]
    /\ Shared(o, n, g) = NoHandles

\* what the three reads at the shared boundary answer to caller c about note n of o
SharedViews(c, o, n) ==
  <<getSharedNoteKeyChunks(c, o, n), getSharedNoteCID(c, o, n), getSharedNoteMetadata(c, o, n)>>

\* C22: to a caller without an active grant the three shared reads fail with 'No
\* access' and answer the same for every note of every owner, whether the note does not
\* exist, exists and was never shared with the caller, was revoked, or is the caller's
\* own; what they answer does not depend on any record the caller has no grant on
C22_NoExistenceLeak ==
  \A c \in Addr, o \in Addr, n \in NoteIds :
    ~Active(o, n, c)
      => /\ \A j \in 1..3 : SharedViews(c, o, n)[j].err = "No access"
         /\ \A o2 \in Addr, n2 \in NoteIds :
              ~Active(o2, n2, c) => SharedViews(c, o2, n2) = SharedViews(c, o, n)

\* a caller whose grant on an existing note was revoked, next to an id that no note has
C22_Witness ==
  \E c \in Addr, o \in Addr, n \in NoteIds, n2 \in NoteIds :
    /\ o # c /\ Exists(o, n) /\ ~Exists(o, n2)
    /\ ~Active(o, n, c)
    /\ \E i \in DOMAIN receivedNotes[c] : receivedNotes[c][i] = [owner |-> o, noteId |-> n]
    /\ SharedViews(c, o, n)[2].err = "No access" /\ SharedViews(c, o, n2)[2].err = "No access"

\* C23: a mined unshareNote(r, g) leaves g without oracle permission on every handle of
\* the grant it revokes
C23_RevokeEndsPermission ==
  [][\A o \in Addr, g \in Addr, n \in 0..(MaxNotes - 1) : \A hs \in {Shared(o, n, g)} :
       (/\ lastTx' = [fn |-> "unshareNote", sender |-> o, err |-> ""]
        /\ now' = now + 1
        /\ Active(o, n, g) /\ ~Active(o, n, g)')
         => \A j \in 1..NumChunks : <<hs[j], g>> \notin fheAcl']_vars

\* the grant of a note to g has been revoked, and g is still permitted on four handles
\* whose cleartexts join to the key of the note's stored payload
C23_Witness ==
  \E o \in Addr, g \in Addr, n \in 0..(MaxNotes - 1) :
    /\ o # g /\ Exists(o, n) /\ ~Active(o, n, g)
    /\ lastTx = [fn |-> "unshareNote", sender |-> o, err |-> ""]
    /\ \E b \in 0..(Len(fhe) - NumChunks) :
         LET hs == [j \in 1..NumChunks |-> b + j]
         IN  /\ Permitted(g, hs)
             /\ JoinChunks(KeyOf(hs)) = Stored(o, n).key

\* C24: whenever a session's key cache holds a key for a note of its account, it is
\* the key that opens the note's stored payload; and the handles a mined shareNote of a
\* session installs encrypt the key that opens the payload stored at that time
C24_ShareEscrowsCurrentKey ==
  /\ [](\A s \in Sess, n \in 0..(MaxNotes - 1) :
          (MyKey(n) \in DOMAIN keyCache[s] /\ Exists(account[s], n))
            => keyCache[s][MyKey(n)] = Stored(account[s], n).key)
  /\ [][\A s \in Sess : \A p \in {pending[s]} :
          (/\ p.fn = "shareNote"
           /\ log'[s] # log[s] /\ log'[s].op = "share" /\ log'[s].out = "")
            => JoinChunks(KeyOf(p.hs)) = Stored(account[s], p.noteId).key]_vars

\* the owner unlocked a note, saved new content and selected the note again: it is shown
\* unlocked with the new content, Share is offered, and the key cache holds the key of
\* the payload that was replaced
C24_Witness ==
  \E s \in Sess, n \in 0..(MaxNotes - 1) :
    /\ ShowsUnlocked(s) /\ selectedNoteId[s] = n /\ Idle(s)
    /\ Exists(account[s], n)
    /\ content[s] = Stored(account[s], n).pt
    /\ MyKey(n) \in DOMAIN keyCache[s]
    /\ keyCache[s][MyKey(n)] # Stored(account[s], n).key

\* text is a plaintext of note n of the account of session s: what the session has
\* cached for the note or what the note's stored payload holds
OwnText(s, n, text) ==
  \/ MyKey(n) \in DOMAIN contentCache[s] /\ contentCache[s][MyKey(n)] = text
  \/ Exists(account[s], n) /\ Stored(account[s], n).pt = text

\* C25: in whatever order the continuations of note selections resume, while an
\* existing own note is selected and editable and no request is in flight the editor
\* holds a plaintext of that note, not a placeholder and not another note's text; and a
\* content save that sends the editor's text as it stands sends a plaintext of the note
C25_EditableShowsOwnText ==
  /\ [](\A s \in Sess :
          (Idle(s) /\ selectedNoteId[s] # NullId /\ isDecrypted[s] /\ ~isNewNote[s])
            => /\ content[s] \notin {LockedText, FailedText}
               /\ OwnText(s, selectedNoteId[s], content[s]))
  /\ [][\A s \in Sess :
          (Idle(s) /\ pending'[s].fn = "updateContent" /\ pending'[s].pt = content[s])
            => OwnText(s, pending'[s].noteId, content[s])]_vars

\* two notes with different texts were selected one after the other and the first
\* selection resumed last: the second note is selected and editable and the editor
\* holds the text of the first
C25_Witness ==
  \E s \in Sess, n \in 0..(MaxNotes - 1), m \in 0..(MaxNotes - 1) :
    /\ m # n /\ Exists(account[s], n) /\ Exists(account[s], m)
    /\ Idle(s) /\ selectedNoteId[s] = n /\ isDecrypted[s] /\ ~isNewNote[s]
    /\ codec.selects = {}
    /\ content[s] = Stored(account[s], m).pt
    /\ ~OwnText(s, n, content[s])

\* C26: when a decrypt of note r completes, the caches change under r's cache key
\* only, and if r is no longer the selection the editor's content and its unlocked
\* flag stay as they were
C26_CompletionKeepsOtherSelection ==
  [][\A s \in Sess : \A p \in {pending[s]} :
       (p.fn = "userDecrypt" /\ pending'[s].fn = "none")
         => /\ \A k \in DOMAIN contentCache'[s] :
                 k # MyKey(p.noteId) => k \in DOMAIN contentCache[s]
                                        /\ contentCache'[s][k] = contentCache[s][k]
            /\ \A k \in DOMAIN keyCache'[s] :
                 k # MyKey(p.noteId) => k \in DOMAIN keyCache[s]
                                        /\ keyCache'[s][k] = keyCache[s][k]
            /\ selectedNoteId[s] # p.noteId
                 => content'[s] = content[s] /\ isDecrypted'[s] = isDecrypted[s]]_vars

\* New Note was pressed while a decrypt of a note was in flight and the decrypt has
\* completed: the draft of the new note holds the plaintext of that note
C26_Witness ==
  \E s \in Sess, n \in 0..(MaxNotes - 1) :
    /\ Idle(s) /\ isNewNote[s] /\ selectedNoteId[s] = NullId
    /\ log[s].op = "decrypt" /\ log[s].out = "" /\ log[s].noteId = n
    /\ Exists(account[s], n)
    /\ content[s] = Stored(account[s], n).pt /\ content[s] # ""
    /\ contentCache[s][MyKey(n)] = content[s]

\* C27: a Decrypt in which the oracle's answer has a chunk that is neither null nor 0
\* and a chunk that is null or 0 is not rejected: the key is joined from the four
\* values, 0 standing at the place of each null one, the payload is downloaded and
\* opened with that key, and the run ends unlocked with the payload's text when that is
\* the key that seals it and with the cipher's error, locked and caching nothing, when not
C27_PartialNulls ==
  [][\A s \in Sess, resp \in OracleResponses :
       (/\ log'[s].op = "decrypt" /\ pending' = pending
        /\ <<log[s], calls[s], content[s], isDecrypted[s]>>
             # <<log'[s], calls'[s], content'[s], isDecrypted'[s]>>) =>
       LET a == account[s]
           ref == selectedSharedNote[s]
           owner == IF SharedSelected(s) THEN ref.owner ELSE a
           noteId == IF SharedSelected(s) THEN ref.noteId ELSE selectedNoteId[s]
           cacheKey == IF SharedSelected(s) THEN SharedKey(owner, noteId) ELSE MyKey(noteId)
           cidR == IF SharedSelected(s) THEN getSharedNoteCID(a, owner, noteId)
                   ELSE getNoteCID(a, noteId)
           keyR == IF SharedSelected(s) THEN getSharedNoteKeyChunks(a, owner, noteId)
                   ELSE getNoteKeyChunks(a, noteId)
           dec == requestDecryption4x64(a, keyR.ret, resp)
           candidate == JoinChunks([j \in 1..NumChunks |->
                                      IF dec.ret[j] = Null THEN BigZero ELSE dec.ret[j]])
       IN  (/\ cidR.err = "" /\ keyR.err = "" /\ dec.err = ""
            /\ \E j \in 1..NumChunks : dec.ret[j] \notin {Null, BigZero}
            /\ \E j \in 1..NumChunks : dec.ret[j] \in {Null, BigZero}
            /\ handleDecryptOn(s, resp))
             => /\ log'[s].out \in {"", "OperationError"}
                /\ {"downloadFromIPFS", "aesDecrypt"} \subseteq calls'[s]
                /\ IF candidate = Stored(owner, noteId).key
                   THEN /\ log'[s].out = "" /\ isDecrypted'[s]
                        /\ content'[s] = Stored(owner, noteId).pt
                        /\ keyCache'[s][cacheKey] = candidate
                   ELSE /\ log'[s].out = "OperationError" /\ ~isDecrypted'[s]
                        /\ contentCache'[s] = contentCache[s]
                        /\ keyCache'[s] = keyCache[s]]_vars

\* the owner's Decrypt of a note whose escrowed key is the key of its payload has
\* failed in the cipher: the oracle left out a chunk of the key that is not 0
C27_Witness ==
  /\ log[1].op = "decrypt" /\ log[1].out = "OperationError"
  /\ OwnSelected(1) /\ ~isDecrypted[1] /\ content[1] = FailedText
  /\ {"userDecrypt", "downloadFromIPFS", "aesDecrypt"} \subseteq calls[1]
  /\ JoinChunks(KeyOf(NoteAt(1, selectedNoteId[1]).keyChunks)) = Stored(1, selectedNoteId[1]).key
  /\ MyKey(selectedNoteId[1]) \notin DOMAIN keyCache[1]

\* the places of the pair (o, n) in a "shared with me" list
PlacesOf(list, o, n) == {i \in DOMAIN list : list[i].owner = o /\ list[i].noteId = n}

\* C28: the "shared with me" list a session has just fetched holds a pair (owner, note)
\* exactly when the store holds an active grant of that note to the session's account
C28_ViewShowsActiveGrants ==
  [][\A s \in Sess :
       Refresh(s) => \A o \in Addr, n \in 0..(MaxNotes - 1) :
                       PlacesOf(sharedNotes'[s], o, n) # {} <=> Active(o, n, account[s])]_vars

\* a note with an empty title is granted to the account of a session that has just
\* fetched its lists: the reverse index holds the pair and the list does not show it
C28_Witness ==
  \E s \in Sess, o \in Addr, n \in 0..(MaxNotes - 1) :
    /\ Exists(o, n) /\ NoteAt(o, n).title = "" /\ Active(o, n, account[s])
    /\ [owner |-> o, noteId |-> n] \in {receivedNotes[account[s]][i] : i \in DOMAIN receivedNotes[account[s]]}
    /\ calls[s] = {"getMyNotesMetadata", "getReceivedNotes"}
    /\ sharedNotes[s] = LoadedSharedNotes(s)
    /\ PlacesOf(sharedNotes[s], o, n) = {}

\* C29: the "shared with me" list a session has just fetched holds each pair that is
\* actively granted to the session's account at exactly one place
C29_ViewListsOnce ==
  [][\A s \in Sess :
       Refresh(s) => \A o \in Addr, n \in 0..(MaxNotes - 1) :
                       Active(o, n, account[s])
                         => Cardinality(PlacesOf(sharedNotes'[s], o, n)) = 1]_vars

\* a note was granted, revoked and granted again and the grantee has just fetched its
\* lists: the pair stands at two places of the list
C29_Witness ==
  \E s \in Sess, o \in Addr, n \in 0..(MaxNotes - 1) :
    /\ Active(o, n, account[s])
    /\ calls[s] = {"getMyNotesMetadata", "getReceivedNotes"}
    /\ sharedNotes[s] = LoadedSharedNotes(s)
    /\ Cardinality(PlacesOf(sharedNotes[s], o, n)) = 2

\* C30: for every note, getSharedWithList returns the addresses that hold an active
\* grant of the note, each of them once and no other address
C30_SharedWithListIsGrantTable ==
  \A o \in Addr, n \in 0..(MaxNotes - 1) :
    Exists(o, n) =>
      LET list == getSharedWithList(o, n).ret
      IN  /\ {list[i] : i \in DOMAIN list} = {g \in Addr : Active(o, n, g)}
          /\ \A i \in DOMAIN list, j \in DOMAIN list : list[i] = list[j] => i = j

\* a grant has just been revoked and the list of the note still names the grantee
C30_Witness ==
  \E o \in Addr, g \in Addr, n \in 0..(MaxNotes - 1) :
    /\ Exists(o, n) /\ ~Active(o, n, g)
    /\ lastTx = [fn |-> "unshareNote", sender |-> o, err |-> ""]
    /\ g \in {getSharedWithList(o, n).ret[i] : i \in DOMAIN getSharedWithList(o, n).ret}

\* C31: for every owner getActiveNoteCount is the number of the owner's notes that are
\* not deleted and deleteNote never underflows it; getTotalNotes starts at 0 and grows
\* by one with each mined createNote of the owner and with no other step
C31_CountsMatchNotes ==
  /\ [](\A o \in Addr :
          /\ getActiveNoteCount(o)
               = Cardinality({i \in DOMAIN userNotes[o] : ~userNotes[o][i].isDeleted})
          /\ getActiveNoteCount(o) >= 0 /\ getActiveNoteCount(o) <= getTotalNotes(o)
          /\ \A n \in NoteIds : deleteNoteRevert(o, n) # "Panic(0x11)"
          /\ now = 0 => getTotalNotes(o) = 0)
  /\ [][\A o \in Addr :
          getTotalNotes(o)' = getTotalNotes(o)
            + (IF lastTx' = [fn |-> "createNote", sender |-> o, err |-> ""] /\ now' = now + 1
               THEN 1 ELSE 0)]_vars

\* an owner created a note and deleted it, and a second deleteNote of the note has just
\* been rejected: one note in total, none active
C31_Witness ==
  \E o \in Addr :
    /\ lastTx = [fn |-> "deleteNote", sender |-> o, err |-> "Already deleted"]
    /\ getTotalNotes(o) = 1 /\ getActiveNoteCount(o) = 0
    /\ NoteAt(o, 0).isDeleted

\* C32: while a note is deleted, updateTitle, updateContent, shareNote and
\* setNoteCategory on it revert with 'Deleted'; a step leaves its title, locator, key
\* handles, timestamps and category as they are, changes its deleted flag only as a
\* mined restoreNote of the owner and its grants only as a mined unshareNote of the
\* owner, which clears one; and on a note that is not deleted the four operations
\* with a valid proof are accepted
C32_DeletedIsFrozen ==
  /\ [](\A o \in Addr, n \in 0..(MaxNotes - 1) :
          Exists(o, n) =>
            IF NoteAt(o, n).isDeleted
            THEN /\ updateTitleRevert(o, n) = "Deleted"
                 /\ \A hs \in Batches(o, 64) : updateContentRevert(o, n, hs) = "Deleted"
                 /\ \A hs \in Batches(o, 64), g \in Addr \cup {ZeroAddr} :
                      shareNoteRevert(o, n, g, hs) = "Deleted"
                 /\ \A hs \in Batches(o, 8) : setNoteCategoryRevert(o, n, hs[1]) = "Deleted"
            ELSE /\ updateTitleRevert(o, n) = ""
                 /\ \A hs \in Batches(o, 64) :
                      ProofOk(o, hs, 64) =>
                        /\ updateContentRevert(o, n, hs) = ""
                        /\ \A g \in Addr \ {o} :
                             ~Active(o, n, g) => shareNoteRevert(o, n, g, hs) = ""
                 /\ \A hs \in Batches(o, 8) :
                      ProofOk(o, <<hs[1]>>, 8) => setNoteCategoryRevert(o, n, hs[1]) = "")
  /\ [][\A o \in Addr, n \in 0..(MaxNotes - 1) :
          (Exists(o, n) /\ NoteAt(o, n).isDeleted)
            => /\ [NoteAt(o, n)' EXCEPT !.isDeleted = TRUE] = NoteAt(o, n)
               /\ getNoteCategory(o, n)' = getNoteCategory(o, n)
               /\ ~(NoteAt(o, n)').isDeleted
                    => lastTx' = [fn |-> "restoreNote", sender |-> o, err |-> ""]
               /\ \A g \in Addr :
                    Shared(o, n, g)' # Shared(o, n, g)
                      => /\ lastTx' = [fn |-> "unshareNote", sender |-> o, err |-> ""]
                         /\ Shared(o, n, g)' = NoHandles]_vars

\* an updateTitle of a deleted note has just been rejected
C32_Witness ==
  \E o \in Addr, n \in 0..(MaxNotes - 1) :
    /\ Exists(o, n) /\ NoteAt(o, n).isDeleted
    /\ lastTx = [fn |-> "updateTitle", sender |-> o, err |-> "Deleted"]
    /\ NoteAt(o, n).updatedAt = NoteAt(o, n).createdAt

\* C33: a mined updateTitle changes the title and updatedAt of one note of its sender
\* and nothing else of the store: no locator, key handle, deleted flag, category,
\* grant or oracle permission; and a Save of a session whose selected note is locked
\* sends updateTitle only, with no upload and no encrypted input, and ends with
\* updateTitle as its only call
C33_TitleOnlyUpdate ==
  /\ [][\A o \in Addr :
          (lastTx' = [fn |-> "updateTitle", sender |-> o, err |-> ""] /\ now' = now + 1)
            => /\ \A a \in Addr :
                    /\ Len(userNotes'[a]) = Len(userNotes[a])
                    /\ \A i \in DOMAIN userNotes[a] :
                         /\ [userNotes'[a][i] EXCEPT !.title = userNotes[a][i].title,
                                                     !.updatedAt = userNotes[a][i].updatedAt]
                              = userNotes[a][i]
                         /\ a # o => userNotes'[a][i] = userNotes[a][i]
               /\ Cardinality({i \in DOMAIN userNotes[o] : userNotes'[o][i] # userNotes[o][i]}) <= 1
               /\ UNCHANGED <<noteCount, sharedNoteKeys, sharedWithList, receivedNotes,
                              noteCategories, fheAcl, fhe, ipfs>>]_vars
  /\ [][\A s \in Sess :
          /\ (/\ Idle(s) /\ OwnSelected(s) /\ ~isNewNote[s] /\ ~isDecrypted[s]
              /\ pending'[s] # pending[s]
              /\ handleSaveWith(s, "none", 0))
               => /\ pending'[s].fn = "updateTitle"
                  /\ pending'[s].noteId = selectedNoteId[s]
                  /\ pending'[s].keyBytes = << >> /\ pending'[s].hs = NoHandles
                  /\ calls'[s] = {}
                  /\ fhe' = fhe /\ ipfs' = ipfs
          /\ (pending[s].fn = "updateTitle" /\ pending'[s].fn = "none")
               => /\ calls'[s] = {"updateTitle"}
                  /\ fhe' = fhe /\ ipfs' = ipfs
                  /\ UNCHANGED <<contentCache, keyCache>>]_vars

\* a session saved its locked note: updateTitle was mined, the note has a later
\* updatedAt and the locator and key of its payload
C33_Witness ==
  \E s \in Sess :
    /\ lastTx = [fn |-> "updateTitle", sender |-> account[s], err |-> ""]
    /\ log[s].op = "save" /\ log[s].out = "" /\ calls[s] = {"updateTitle"}
    /\ OwnSelected(s) /\ ~isDecrypted[s] /\ Idle(s)
    /\ NoteAt(account[s], selectedNoteId[s]).updatedAt > NoteAt(account[s], selectedNoteId[s]).createdAt
    /\ JoinChunks(KeyOf(NoteAt(account[s], selectedNoteId[s]).keyChunks))
         = Stored(account[s], selectedNoteId[s]).key

\* C34: no handle of a grant is a key handle of a note or stands at another place of
\* the grant table; and the handles a step installs in a grant that was not active were
\* never before permitted to the grantee, so they are not those of a revoked grant
C34_FreshGrantHandles ==
  /\ [](\A k \in DOMAIN sharedNoteKeys : \A j \in 1..NumChunks :
          /\ \A o \in Addr, n \in 0..(MaxNotes - 1) :
               Exists(o, n) => \A i \in 1..NumChunks :
                                 NoteAt(o, n).keyChunks[i] # sharedNoteKeys[k][j]
          /\ \A k2 \in DOMAIN sharedNoteKeys, j2 \in 1..NumChunks :
               sharedNoteKeys[k2][j2] = sharedNoteKeys[k][j] => (k2 = k /\ j2 = j))
  /\ [][\A o \in Addr, g \in Addr, n \in 0..(MaxNotes - 1) :
          (~Active(o, n, g) /\ Active(o, n, g)')
            => \A j \in 1..NumChunks : <<Shared(o, n, g)'[j], g>> \notin fheAcl]_vars

\* a shareNote has just been mined and the grant holds the key handles of the
\* owner's note
C34_Witness ==
  \E o \in Addr, g \in Addr, n \in 0..(MaxNotes - 1) :
    /\ o # g /\ Exists(o, n) /\ Active(o, n, g)
    /\ lastTx = [fn |-> "shareNote", sender |-> o, err |-> ""]
    /\ Shared(o, n, g) = NoteAt(o, n).keyChunks

\* C35: the list of own notes a session has just fetched holds, once each, exactly the
\* notes of its account that are not deleted, with their ids, titles and timestamps; a
\* mined Delete of a session takes the note out of its list and leaves the note's row in
\* the store with only the deleted flag changed; and a step that clears the flag leaves
\* the row otherwise as it was
C35_ListIsActiveNotes ==
  /\ [][\A s \in Sess :
          Refresh(s) =>
            LET a == account[s]
                active == {n \in 0..(MaxNotes - 1) : Exists(a, n) /\ ~NoteAt(a, n).isDeleted}
                list == notes'[s]
            IN  /\ {list[i].id : i \in DOMAIN list} = active
                /\ Len(list) = Cardinality(active)
                /\ \A i \in DOMAIN list :
                     /\ list[i].createdAt = NoteAt(a, list[i].id).createdAt
                     /\ list[i].updatedAt = NoteAt(a, list[i].id).updatedAt
                     /\ list[i].title = IF NoteAt(a, list[i].id).title = "" THEN "Untitled"
                                        ELSE NoteAt(a, list[i].id).title]_vars
  /\ [][\A s \in Sess : \A p \in {pending[s]} :
          (p.fn = "deleteNote" /\ pending'[s].fn = "none" /\ log'[s].out = "")
            => /\ \A i \in DOMAIN notes'[s] : notes'[s][i].id # p.noteId
               /\ Len(userNotes'[account[s]]) = Len(userNotes[account[s]])
               /\ userNotes'[account[s]][p.noteId + 1]
                    = [userNotes[account[s]][p.noteId + 1] EXCEPT !.isDeleted = TRUE]]_vars
  /\ [][\A o \in Addr : \A i \in DOMAIN userNotes[o] :
          (userNotes[o][i].isDeleted /\ ~userNotes'[o][i].isDeleted)
            => userNotes'[o][i] = [userNotes[o][i] EXCEPT !.isDeleted = FALSE]]_vars

\* a note was saved, deleted and restored, and its owner's session has just fetched its
\* lists: the note is listed with its id and the key and locator of its payload
C35_Witness ==
  \E s \in Sess, n \in 0..(MaxNotes - 1) :
    /\ lastTx = [fn |-> "restoreNote", sender |-> account[s], err |-> ""]
    /\ calls[s] = {"getMyNotesMetadata", "getReceivedNotes"}
    /\ Exists(account[s], n) /\ ~NoteAt(account[s], n).isDeleted
    /\ \E i \in DOMAIN notes[s] : notes[s][i].id = n
    /\ log[s].op = "none"
    /\ MyKey(n) \notin DOMAIN contentCache[s]
    /\ JoinChunks(KeyOf(NoteAt(account[s], n).keyChunks)) = Stored(account[s], n).key

\* C36: whenever the provider's status is READY the signer and the relayer are set,
\* and once no timer is set and no setupProvider is in flight READY also means that
\* the wallet is connected on the supported network
C36_ReadyMeansUsable ==
  (codec.status = "ready")
    => /\ codec.ethersSigner /\ codec.relayer
       /\ (codec.timer = NoTimer /\ codec.runs = << >>) => codec.wallet = "sepolia"

\* the wallet is not connected, no timer is set and nothing is in flight, and the
\* status is READY: a setupProvider started while the wallet was connected has
\* completed after the setupProvider of the disconnection
C36_Witness ==
  /\ codec.status = "ready" /\ codec.wallet = "none"
  /\ codec.timer = NoTimer /\ codec.runs = << >>
  /\ codec.relayer

\* C37: in every variant, a category that is being set on a note was encrypted as one
\* 8-bit input (add8) with its own proof, which the store's externalEuint8 parameter
\* accepts: the handle sent with setNoteCategory has width 8, is the only handle of its
\* input and passes the proof test of setNoteCategory for the sender
C37_CategoryIsEightBits ==
  \A s \in Sess :
    pending[s].fn \in {"setNoteCategory", "handleSetCategory"} =>
      /\ pending[s].h \in DOMAIN fhe
      /\ fhe[pending[s].h].bits = 8
      /\ \A h \in DOMAIN fhe : fhe[h].input = fhe[pending[s].h].input => h = pending[s].h
      /\ ProofOk(account[s], <<pending[s].h>>, 8)

\* a category chosen in the dropdown of a saved note has been encrypted and sent
C37_Witness ==
  \E s \in Sess :
    /\ pending[s].fn = "handleSetCategory"
    /\ Exists(account[s], pending[s].noteId)
    /\ pending[s].h \in DOMAIN fhe

\* C38: given that every external call eventually returns or throws, a Save, Decrypt,
\* Share, Delete or set-category operation that has started (the busy flag is set)
\* eventually finishes: the flag is cleared and no call is awaited any more, so the
\* note is locked or unlocked and not left waiting for the oracle
C38_HandlersFinish ==
  \A s \in Authors :
    (pending[s].fn # "none") ~> Idle(s)

\* a handler has finished by its catch and finally blocks after its call threw
C38_Witness ==
  \E s \in Authors : Idle(s) /\ log[s].out = "threw" /\ log[s].op \in {"save", "share", "delete", "category"}

====
